---- MODULE Spec2Model ----
(***************************************************************************)
(* EmotionalTracker back end (Django / Django REST framework).             *)
(*                                                                         *)
(* The module models the emotion-submission API (views.py, EmotionViewSet),*)
(* the registration / profile-update path of the Collaborator serializer   *)
(* (serializers.py) and the Collaborator hierarchy validation (models.py). *)
(***************************************************************************)
EXTENDS Integers, Sequences, FiniteSets, TLC

(***************************************************************************)
(* Bounds of the model.                                                    *)
(***************************************************************************)
\* Days are numbered from a Monday (day 0), so that day % 7 is Python's
\* date.weekday().  The clock runs from FirstDay to LastDay.
FirstDay == 4
LastDay == 6
\* Emotion rows ever inserted (the primary-key counter stops there).
MaxEmotions == 2

\* The authenticated callers (request.user).
CollaboratorIds == {"c1", "c2"}

\* UTC hours at which a request can arrive: local (UTC+3) hours 11, 12, 16
\* and 17, the two sides of the 12h and of the 17h limit.
UtcHours == {8, 9, 13, 14}

\* In-flight requests of the concurrent specification.
Requests == {"r1", "r2"}

None == "None"

(***************************************************************************)
(* State.                                                                  *)
(***************************************************************************)
VARIABLES
    clock,          \* timezone.now(): hours since Monday 00:00 UTC of week 0
    emotion_types,  \* EmotionType table: id -> [name, degree]
    emotions,       \* Emotion table: a set of rows
    next_id,        \* next primary key of the Emotion table
    resp,           \* response of the request handled by the last step
    inflight,       \* concurrent specification: the state of each request
    collaborators,  \* Collaborator table: id -> row, or NoRow
    outstanding,    \* OutstandingToken table: the refresh tokens issued
    blacklisted,    \* BlacklistedToken table: the refresh tokens revoked
    started         \* the local date on which the server process started

vars == <<clock, emotion_types, emotions, next_id, resp, inflight, collaborators,
          outstanding, blacklisted, started>>

(***************************************************************************)
(* Emotion taxonomy (models.py, EmotionType).                              *)
(***************************************************************************)
EMOTION_DEGREES ==
    [n \in {"HAPPY", "SAD", "NEUTRAL", "ANGRY", "EXCITED", "ANXIOUS"} |->
        CASE n = "HAPPY" -> 1
          [] n = "SAD" -> -1
          [] n = "NEUTRAL" -> 0
          [] n = "ANGRY" -> -5
          [] n = "EXCITED" -> 5
          [] n = "ANXIOUS" -> -2]

\* Ids a client can put in the 'emotion_type' field of a request: the two
\* rows of the table, and the id of no row (0; leaving the field out makes
\* the lookup fail the same way).
EmotionTypeInputs == {0, 1, 2}

(***************************************************************************)
(* Time, as submit_emotion reads it.                                       *)
(***************************************************************************)
\* timedelta(hours=3)
MadagascarOffset == 3

\* now = timezone.now() + timedelta(hours=3)
now == clock + MadagascarOffset

\* today = now.date()
today == now \div 24

\* now.weekday(), Monday = 0
weekday == today % 7

\* current_hour = now.hour
current_hour == now % 24

ClockValues == {24 * d + h : d \in FirstDay..LastDay, h \in UtcHours}

(***************************************************************************)
(* Responses.                                                              *)
(***************************************************************************)
\* The request handled by the last step and its response: the operation, the
\* caller of an operation on emotions, the 'emotion_type' of a submit
\* request, the HTTP status, the 'error' of the body (for register and
\* update-profile the field it names) and the id of the row the response
\* shows.
Response(op, c, t, st, err, id) ==
    [op |-> op, caller |-> c, emotion_type |-> t, status |-> st, error |-> err,
     id |-> id]

NoResponse == Response("none", None, 0, 0, "", 0)

WeekendMessage == "C'est le week-end"

(***************************************************************************)
(* Emotion rows.  The final Emotion model is not part of the sources: its  *)
(* save-time derivation of the stored fields follows section 4.4 of the    *)
(* specification.                                                          *)
(***************************************************************************)
\* The calendar.  Day 0 is Monday 26 May 2025, in ISO week 22; day 5 is
\* Saturday 31 May, day 6 is Sunday 1 June.
YearOf(day) == 2025

MonthOf(day) == IF day <= 5 THEN 5 ELSE 6

\* date.isocalendar()[1]
WeekNumberOf(day) == 22 + day \div 7

\* half_day of a timestamp dt: 'morning' if its hour is before 12.
HalfDayOf(dt) == IF dt % 24 < 12 THEN "morning" ELSE "evening"

\* Emotion.save of a new row: date defaults to now + 3h, the degree is
\* copied from the emotion type, the derived fields follow from the date.
NewEmotion(c, t) ==
    [id |-> next_id,
     collaborator |-> c,
     emotion_type |-> t,
     emotion_degree |-> emotion_types[t].degree,
     day |-> now \div 24,
     week_number |-> WeekNumberOf(now \div 24),
     month |-> MonthOf(now \div 24),
     year |-> YearOf(now \div 24),
     half_day |-> HalfDayOf(now)]

\* Emotion.save of an existing row: the degree is copied again, the date and
\* what derives from it stay.
SavedEmotion(e, c, t) ==
    [e EXCEPT !.collaborator = c,
              !.emotion_type = t,
              !.emotion_degree = emotion_types[t].degree]

(***************************************************************************)
(* EmotionViewSet.submit_emotion (views.py).                               *)
(***************************************************************************)
\* Mutant: the week-end taken for days 4 and 5 (a week counted from Sunday).
IsWeekend_SundayFirst(wd) == wd = 4 \/ wd = 5

\* now.weekday() == 5 or now.weekday() == 6
IsWeekend(wd) == wd = 5 \/ wd = 6

\* EmotionType.objects.get(id=emotion_type_id) finds a row
EmotionTypeExists(t) == t \in DOMAIN emotion_types

\* Emotion.objects.filter(collaborator=c, date__date=d, half_day=h).exists()
EmotionExists(c, d, h) ==
    \E e \in emotions : e.collaborator = c /\ e.day = d /\ e.half_day = h

morning_emotion(c) == EmotionExists(c, today, "morning")

\* Mutant: the evening check looks for a morning row.
evening_emotion_Morning(c) == EmotionExists(c, today, "morning")

evening_emotion(c) == EmotionExists(c, today, "evening")

Reject(st, err) == [accept |-> FALSE, status |-> st, error |-> err, half_day |-> None]

Accept(hd) == [accept |-> TRUE, status |-> 201, error |-> "", half_day |-> hd]

\* Mutant: the earlier revision, which closed the day to a collaborator
\* without a morning row once noon had passed.
SubmitDecision_MorningFirst(c, t) ==
    IF IsWeekend(weekday) THEN Reject(200, WeekendMessage)
    ELSE IF ~EmotionTypeExists(t) THEN Reject(400, "Invalid emotion type")
    ELSE IF current_hour < 12
         THEN IF morning_emotion(c)
              THEN Reject(400, "Morning emotion already submitted")
              ELSE Accept("morning")
         ELSE IF ~morning_emotion(c)
              THEN Reject(400, "Morning submission window has closed")
              ELSE IF evening_emotion(c)
                   THEN Reject(400, "Evening emotion already submitted")
                   ELSE IF current_hour >= 17
                        THEN Reject(400, "No more emotion submissions allowed after 5 PM")
                        ELSE Accept("evening")

\* Mutant: the day closes after 17h, not at 17h.
SubmitDecision_After17(c, t) ==
    IF IsWeekend(weekday) THEN Reject(200, WeekendMessage)
    ELSE IF ~EmotionTypeExists(t) THEN Reject(400, "Invalid emotion type")
    ELSE IF current_hour < 12
         THEN IF morning_emotion(c)
              THEN Reject(400, "Morning emotion already submitted")
              ELSE Accept("morning")
         ELSE IF evening_emotion(c)
              THEN Reject(400, "Evening emotion already submitted")
              ELSE IF current_hour > 17
                   THEN Reject(400, "No more emotion submissions allowed after 5 PM")
                   ELSE Accept("evening")

\* Mutant: the emotion type is validated before the week-end check.
SubmitDecision_TypeFirst(c, t) ==
    IF ~EmotionTypeExists(t) THEN Reject(400, "Invalid emotion type")
    ELSE IF IsWeekend(weekday) THEN Reject(200, WeekendMessage)
    ELSE IF current_hour < 12
         THEN IF morning_emotion(c)
              THEN Reject(400, "Morning emotion already submitted")
              ELSE Accept("morning")
         ELSE IF evening_emotion(c)
              THEN Reject(400, "Evening emotion already submitted")
              ELSE IF current_hour >= 17
                   THEN Reject(400, "No more emotion submissions allowed after 5 PM")
                   ELSE Accept("evening")

\* The checks of submit_emotion, in the order of the code, up to the point
\* where emotion_data is prepared.
SubmitDecision(c, t) ==
    IF IsWeekend(weekday) THEN Reject(200, WeekendMessage)
    ELSE IF ~EmotionTypeExists(t) THEN Reject(400, "Invalid emotion type")
    ELSE IF current_hour < 12
         THEN IF morning_emotion(c)
              THEN Reject(400, "Morning emotion already submitted")
              ELSE Accept("morning")
         ELSE IF evening_emotion(c)
              THEN Reject(400, "Evening emotion already submitted")
              ELSE IF current_hour >= 17
                   THEN Reject(400, "No more emotion submissions allowed after 5 PM")
                   ELSE Accept("evening")

\* Mutant: the insert is dropped when the collaborator already has a row for
\* the day and half-day (a uniqueness constraint on the three columns).
perform_create_Unique(c, data) ==
    LET e == NewEmotion(c, data.emotion_type) IN
    IF EmotionExists(c, e.day, e.half_day)
    THEN UNCHANGED <<emotions, next_id>>
    ELSE /\ emotions' = emotions \cup {e}
         /\ next_id' = next_id + 1

\* Mutant: the row is saved with the collaborator of the request body.
perform_create_BodyCollaborator(c, data) ==
    /\ emotions' = emotions \cup {NewEmotion(data.collaborator, data.emotion_type)}
    /\ next_id' = next_id + 1

\* perform_create: serializer.save(collaborator=self.request.user).  The
\* serializer keeps 'emotion_type' of the data; 'half_day' is a read-only
\* field and the 'collaborator' of the data is overridden by the caller.
perform_create(c, data) ==
    /\ emotions' = emotions \cup {NewEmotion(c, data.emotion_type)}
    /\ next_id' = next_id + 1

\* POST /emotions/submit/, handled from start to end.
SubmitEmotion(c, t) ==
    /\ LET d == SubmitDecision(c, t) IN
         IF d.accept
         THEN /\ next_id <= MaxEmotions
              /\ perform_create(c, [emotion_type |-> t, half_day |-> d.half_day,
                                    collaborator |-> c])
              /\ resp' = Response("submit", c, t, 201, "", next_id)
         ELSE /\ resp' = Response("submit", c, t, d.status, d.error, 0)
              /\ UNCHANGED <<emotions, next_id>>
    /\ UNCHANGED <<clock, emotion_types, inflight, collaborators, outstanding, blacklisted, started>>

(***************************************************************************)
(* The operations a ModelViewSet routes besides the extra actions:         *)
(* create, update, partial_update and destroy of /emotions/.               *)
(***************************************************************************)
\* get_queryset: Emotion.objects.filter(collaborator=self.request.user)
get_queryset(c) == {e \in emotions : e.collaborator = c}

\* POST /emotions/ with {emotion_type: t, collaborator: k}
DefaultCreate(c, t, k) ==
    /\ IF EmotionTypeExists(t) /\ k \in CollaboratorIds
       THEN /\ next_id <= MaxEmotions
            /\ perform_create(c, [emotion_type |-> t, collaborator |-> k])
            /\ resp' = Response("create", c, 0, 201, "", next_id)
       ELSE /\ resp' = Response("create", c, 0, 400, "invalid", 0)
            /\ UNCHANGED <<emotions, next_id>>
    /\ UNCHANGED <<clock, emotion_types, inflight, collaborators, outstanding, blacklisted, started>>

\* PUT /emotions/<id>/ with {emotion_type: t, collaborator: k}
DefaultUpdate(c, id, t, k) ==
    /\ IF ~(\E e \in get_queryset(c) : e.id = id)
       THEN /\ resp' = Response("update", c, 0, 404, "Not found", 0)
            /\ UNCHANGED emotions
       ELSE IF ~(EmotionTypeExists(t) /\ k \in CollaboratorIds)
       THEN /\ resp' = Response("update", c, 0, 400, "invalid", 0)
            /\ UNCHANGED emotions
       ELSE /\ emotions' = {IF e.id = id THEN SavedEmotion(e, k, t) ELSE e : e \in emotions}
            /\ resp' = Response("update", c, 0, 200, "", id)
    /\ UNCHANGED <<clock, emotion_types, next_id, inflight, collaborators, outstanding, blacklisted, started>>

\* PATCH /emotions/<id>/ with {emotion_type: t}
DefaultPartialUpdate(c, id, t) ==
    /\ IF ~(\E e \in get_queryset(c) : e.id = id)
       THEN /\ resp' = Response("partial_update", c, 0, 404, "Not found", 0)
            /\ UNCHANGED emotions
       ELSE IF ~EmotionTypeExists(t)
       THEN /\ resp' = Response("partial_update", c, 0, 400, "invalid", 0)
            /\ UNCHANGED emotions
       ELSE /\ emotions' = {IF e.id = id THEN SavedEmotion(e, e.collaborator, t) ELSE e
                              : e \in emotions}
            /\ resp' = Response("partial_update", c, 0, 200, "", id)
    /\ UNCHANGED <<clock, emotion_types, next_id, inflight, collaborators, outstanding, blacklisted, started>>

\* DELETE /emotions/<id>/
DefaultDestroy(c, id) ==
    /\ IF \E e \in get_queryset(c) : e.id = id
       THEN /\ emotions' = {e \in emotions : e.id # id}
            /\ resp' = Response("destroy", c, 0, 204, "", id)
       ELSE /\ resp' = Response("destroy", c, 0, 404, "Not found", 0)
            /\ UNCHANGED emotions
    /\ UNCHANGED <<clock, emotion_types, next_id, inflight, collaborators, outstanding, blacklisted, started>>

(***************************************************************************)
(* The clock.                                                              *)
(***************************************************************************)
\* Time passes to the next instant at which a request can arrive.
Tick ==
    /\ \E t \in ClockValues :
         /\ t > clock
         /\ \A u \in ClockValues : u > clock => t <= u
         /\ clock' = t
    /\ resp' = NoResponse
    /\ UNCHANGED <<emotion_types, emotions, next_id, inflight, collaborators, outstanding, blacklisted, started>>

(***************************************************************************)
(* The sequential API: one request is handled from start to end before the *)
(* next one starts.                                                        *)
(***************************************************************************)
NoRow == [role |-> None]

Idle == [pc |-> "idle", caller |-> None, emotion_type |-> 0, today |-> 0,
         half_day |-> None, status |-> 0, id |-> 0]

InitEmotionTypes ==
    (1 :> [name |-> "HAPPY", degree |-> EMOTION_DEGREES["HAPPY"]]) @@
    (2 :> [name |-> "SAD", degree |-> EMOTION_DEGREES["SAD"]])

Init ==
    /\ clock = 24 * FirstDay + 8
    /\ emotion_types = InitEmotionTypes
    /\ emotions = {}
    /\ next_id = 1
    /\ resp = NoResponse
    /\ inflight = [r \in Requests |-> Idle]
    /\ collaborators = [c \in CollaboratorIds |-> NoRow]
    /\ outstanding = {}
    /\ blacklisted = {}
    /\ started = today

Next ==
    \/ \E c \in CollaboratorIds, t \in EmotionTypeInputs : SubmitEmotion(c, t)
    \/ \E c \in CollaboratorIds, t \in EmotionTypeInputs, k \in CollaboratorIds :
         DefaultCreate(c, t, k)
    \/ \E c \in CollaboratorIds, id \in 1..MaxEmotions, t \in EmotionTypeInputs,
          k \in CollaboratorIds : DefaultUpdate(c, id, t, k)
    \/ \E c \in CollaboratorIds, id \in 1..MaxEmotions, t \in EmotionTypeInputs :
         DefaultPartialUpdate(c, id, t)
    \/ \E c \in CollaboratorIds, id \in 1..MaxEmotions : DefaultDestroy(c, id)
    \/ Tick

Spec == Init /\ [][Next]_vars

(***************************************************************************)
(* Concurrent submissions: the worker pool handles several requests at     *)
(* once.  A request reads the clock and the tables in its checks           *)
(* (SubmitCheck) and inserts its row later (SubmitCreate); other requests  *)
(* run in between.  Each request keeps its response in 'inflight'.         *)
(***************************************************************************)
\* The rows the checked requests are still to insert.
Pending == Cardinality({r \in Requests : inflight[r].pc = "checked"})

\* submit_emotion from its first line to the end of the time-window checks.
SubmitCheck(r, c, t) ==
    /\ inflight[r].pc = "idle"
    /\ LET d == SubmitDecision(c, t) IN
         IF d.accept
         THEN /\ next_id + Pending <= MaxEmotions
              /\ inflight' = [inflight EXCEPT ![r] =
                    [pc |-> "checked", caller |-> c, emotion_type |-> t,
                     today |-> today, half_day |-> d.half_day, status |-> 0, id |-> 0]]
         ELSE /\ inflight' = [inflight EXCEPT ![r] =
                    [Idle EXCEPT !.pc = "done", !.caller = c, !.status = d.status]]
    /\ UNCHANGED <<clock, emotion_types, emotions, next_id, resp, collaborators, outstanding, blacklisted, started>>

\* submit_emotion from 'Prepare emotion data' to the 201 response.
SubmitCreate(r) ==
    /\ inflight[r].pc = "checked"
    /\ perform_create(inflight[r].caller,
                      [emotion_type |-> inflight[r].emotion_type,
                       half_day |-> inflight[r].half_day,
                       collaborator |-> inflight[r].caller])
    /\ inflight' = [inflight EXCEPT ![r].pc = "done", ![r].status = 201,
                                    ![r].id = next_id, ![r].emotion_type = 0]
    /\ UNCHANGED <<clock, emotion_types, resp, collaborators, outstanding, blacklisted, started>>

\* The response is delivered; the worker takes another request.
Finish(r) ==
    /\ inflight[r].pc = "done"
    /\ inflight' = [inflight EXCEPT ![r] = Idle]
    /\ UNCHANGED <<clock, emotion_types, emotions, next_id, resp, collaborators, outstanding, blacklisted, started>>

TickRace ==
    /\ \E t \in ClockValues :
         /\ t > clock
         /\ \A u \in ClockValues : u > clock => t <= u
         /\ clock' = t
    /\ UNCHANGED <<emotion_types, emotions, next_id, resp, inflight, collaborators, outstanding, blacklisted, started>>

NextRace ==
    \/ \E r \in Requests, c \in CollaboratorIds, t \in EmotionTypeInputs :
         SubmitCheck(r, c, t)
    \/ \E r \in Requests : SubmitCreate(r)
    \/ \E r \in Requests : Finish(r)
    \/ TickRace

SpecRace == Init /\ [][NextRace]_vars

(***************************************************************************)
(* Properties of the emotion-submission API.                               *)
(***************************************************************************)
SameSlot(e1, e2) ==
    /\ e1.collaborator = e2.collaborator
    /\ e1.day = e2.day
    /\ e1.half_day = e2.half_day

Weekdays == 0..4

\* The step handled a submit request (every other step leaves another 'op').
Submitted == resp'.op = "submit"

ValidType == resp'.emotion_type \in DOMAIN emotion_types

\* The rows of the caller of the request for the current local day.
TodayOfCaller == {e \in emotions : e.collaborator = resp'.caller /\ e.day = today}

\* The step inserted exactly one row, of the caller, for today, in half-day hd,
\* and the response shows it with status 201.
CreatedOne(hd) ==
    /\ resp'.status = 201
    /\ \E e \in emotions' :
         /\ e \notin emotions
         /\ emotions' = emotions \cup {e}
         /\ e.id = resp'.id
         /\ e.collaborator = resp'.caller
         /\ e.day = today
         /\ e.half_day = hd

\* C1: after any sequence of API operations handled one after the other
\* there is at most one Emotion row per (collaborator, day, half_day).
C1_OnePerHalfDay ==
    \A e1 \in emotions, e2 \in emotions : SameSlot(e1, e2) => e1 = e2

\* C2: when two submit requests of one collaborator pass the 'already
\* submitted' check for the same day and half-day before either inserts,
\* both inserts go through: both get 201 and both rows are in the table.
C2_RaceInsertsBoth ==
    \A r1 \in Requests, r2 \in Requests :
        ( /\ r1 # r2
          /\ inflight[r1].pc = "done" /\ inflight[r1].status = 201
          /\ inflight[r2].pc = "done" /\ inflight[r2].status = 201
          /\ inflight[r1].caller = inflight[r2].caller
          /\ inflight[r1].today = inflight[r2].today
          /\ inflight[r1].half_day = inflight[r2].half_day )
        => \E e1 \in emotions, e2 \in emotions :
              /\ e1.id = inflight[r1].id
              /\ e2.id = inflight[r2].id
              /\ e1 # e2
              /\ e1.collaborator = inflight[r1].caller
              /\ e2.collaborator = inflight[r1].caller

\* C2 witness: two requests of one collaborator are both answered 201 and the
\* table holds two rows for one (collaborator, day, half_day).
C2_Witness ==
    \E r1 \in Requests, r2 \in Requests :
        /\ r1 # r2
        /\ inflight[r1].pc = "done" /\ inflight[r1].status = 201
        /\ inflight[r2].pc = "done" /\ inflight[r2].status = 201
        /\ \E e1 \in emotions, e2 \in emotions :
              /\ e1.id = inflight[r1].id
              /\ e2.id = inflight[r2].id
              /\ e1 # e2
              /\ SameSlot(e1, e2)

\* C3: a submit with a valid emotion type on a weekday before 12h local, by a
\* collaborator without a row for today, is answered 201 and inserts exactly
\* one row, of the caller, with half_day 'morning'.
C3_MorningSubmitCreates ==
    [][ ( /\ Submitted
          /\ weekday \in Weekdays
          /\ current_hour < 12
          /\ ValidType
          /\ TodayOfCaller = {} )
        => CreatedOne("morning") ]_vars

C3_Witness ==
    /\ resp.op = "submit"
    /\ resp.status = 201
    /\ current_hour < 12
    /\ \E e \in emotions :
         /\ e.id = resp.id
         /\ e.collaborator = resp.caller
         /\ e.half_day = "morning"
         /\ \A f \in emotions : (f.collaborator = resp.caller /\ f.day = today) => f = e

\* The half-day the current hour falls in.
CurrentHalfDay == IF current_hour < 12 THEN "morning" ELSE "evening"

AlreadySubmitted ==
    \E e \in TodayOfCaller : e.half_day = CurrentHalfDay

AlreadyMessage ==
    IF current_hour < 12 THEN "Morning emotion already submitted"
    ELSE "Evening emotion already submitted"

\* C4 as stated: a submit made while the caller has a row for today in the
\* current half-day is answered 400 with the 'already submitted' message and
\* leaves the table unchanged.
C4_DuplicateAlways400 ==
    [][ (Submitted /\ AlreadySubmitted)
        => ( /\ resp'.status = 400
             /\ resp'.error = AlreadyMessage
             /\ emotions' = emotions ) ]_vars

\* C4 amended: the same, for a submit with an existing emotion type on a
\* weekday.
C4_DuplicateRejected ==
    [][ (Submitted /\ AlreadySubmitted /\ weekday \in Weekdays /\ ValidType)
        => ( /\ resp'.status = 400
             /\ resp'.error = AlreadyMessage
             /\ emotions' = emotions ) ]_vars

C4_Witness ==
    /\ resp.op = "submit"
    /\ resp.status = 400
    /\ resp.error = "Evening emotion already submitted"
    /\ \E e \in emotions :
         e.collaborator = resp.caller /\ e.day = today /\ e.half_day = "evening"

\* C5: a submit with a valid emotion type on a weekday at a local hour from 12
\* to 16, by a collaborator without an evening row for today, is answered 201
\* and inserts one 'evening' row, with or without a morning row for today.
C5_EveningSubmitCreates ==
    [][ ( /\ Submitted
          /\ weekday \in Weekdays
          /\ current_hour >= 12 /\ current_hour < 17
          /\ ValidType
          /\ ~(\E e \in TodayOfCaller : e.half_day = "evening") )
        => CreatedOne("evening") ]_vars

\* C5 witness: an evening row was inserted for a caller without a morning row.
C5_Witness ==
    /\ resp.op = "submit"
    /\ resp.status = 201
    /\ \E e \in emotions :
         /\ e.id = resp.id
         /\ e.half_day = "evening"
         /\ e.day = today
         /\ ~EmotionExists(resp.caller, today, "morning")

\* C6 as stated: every submit at a local hour >= 17 is answered 400 and
\* inserts nothing.
C6_AfterHoursAlways400 ==
    [][ (Submitted /\ current_hour >= 17)
        => (resp'.status = 400 /\ emotions' = emotions) ]_vars

\* C6 amended: every submit at a local hour >= 17 is rejected with an 'error'
\* body and inserts nothing; the status is 400 from Monday to Friday and the
\* default 200 on Saturday and Sunday.
C6_AfterHoursRejected ==
    [][ (Submitted /\ current_hour >= 17)
        => ( /\ resp'.error # ""
             /\ resp'.id = 0
             /\ resp'.status = (IF weekday \in Weekdays THEN 400 ELSE 200)
             /\ emotions' = emotions ) ]_vars

C6_Witness ==
    /\ resp.op = "submit"
    /\ current_hour >= 17
    /\ weekday \in Weekdays
    /\ resp.emotion_type \in DOMAIN emotion_types
    /\ resp.status = 400
    /\ resp.error = "No more emotion submissions allowed after 5 PM"

\* C7: every submit on a Saturday or Sunday is rejected whatever the hour and
\* the emotion type: the body holds the week-end 'error' alone, the status
\* is the default 200, and nothing is inserted.
C7_WeekendRejected ==
    [][ (Submitted /\ weekday \in {5, 6})
        => ( /\ resp'.status = 200
             /\ resp'.error = WeekendMessage
             /\ resp'.id = 0
             /\ emotions' = emotions ) ]_vars

\* C7 witness: a week-end submit with an emotion type of no row got the
\* week-end answer, not 'Invalid emotion type'.
C7_Witness ==
    /\ resp.op = "submit"
    /\ weekday \in {5, 6}
    /\ resp.emotion_type \notin DOMAIN emotion_types
    /\ resp.status = 200
    /\ resp.error = WeekendMessage

\* C8: through the REST API a row of the Emotion table is inserted by submit
\* alone, and no row is ever changed or removed.
C8_OnlySubmitWrites ==
    [][ emotions' # emotions
        => (Submitted /\ emotions \subseteq emotions') ]_vars

(***************************************************************************)
(* The collaborator ladder of models.py: the roles EMPLOYEE, MANAGER,      *)
(* DIRECTOR and POLE_DIRECTOR, each collaborator with an optional          *)
(* 'manager' reference to another row of the table.                        *)
(***************************************************************************)
ROLE_CHOICES == {"EMPLOYEE", "MANAGER", "DIRECTOR", "POLE_DIRECTOR"}

\* The collaborator has a row in the table.
Persisted(c) == collaborators[c].role # None

\* Collaborator.clean: the message of the ValidationError it raises, "" when
\* it raises none.  self.manager is the row the reference points to, as the
\* table holds it.
clean(self) ==
    IF self.manager = None THEN ""
    ELSE LET manager_role == collaborators[self.manager].role IN
         IF self.role = "EMPLOYEE" /\ manager_role # "MANAGER"
         THEN "Un employe doit avoir un manager comme superieur"
         ELSE IF self.role = "MANAGER" /\ manager_role # "DIRECTOR"
         THEN "Un manager doit avoir un directeur comme superieur"
         ELSE IF self.role = "DIRECTOR" /\ manager_role # "POLE_DIRECTOR"
         THEN "Un directeur doit avoir un directeur de pole comme superieur"
         ELSE IF self.role = "POLE_DIRECTOR"
         THEN "Un directeur de pole ne peut pas avoir de superieur"
         ELSE ""

\* Collaborator.save of the row of c, new or existing, with the given role
\* and manager: clean(), then the write.  A manager reference points to a row
\* of the table.
save(c, role, m) ==
    /\ m # None => Persisted(m)
    /\ LET self == [role |-> role, manager |-> m]
           message == clean(self)
       IN IF message = ""
          THEN /\ collaborators' = [collaborators EXCEPT ![c] = self]
               /\ resp' = Response("save", c, 0, 0, "", 0)
          ELSE /\ resp' = Response("save", c, 0, 0, message, 0)
               /\ UNCHANGED collaborators
    /\ UNCHANGED <<clock, emotion_types, emotions, next_id, inflight, outstanding, blacklisted, started>>

\* self.subordinates.all(): the rows whose manager is c
get_subordinates(c) ==
    {s \in CollaboratorIds : Persisted(s) /\ collaborators[s].manager = c}

\* The interpreter gives up a recursion deeper than its limit.  A walk down
\* a relation without cycle never goes deeper than the number of rows.
RecursionLimit == Cardinality(CollaboratorIds) + 1

RecursionError == "RecursionError"

\* get_all_subordinates at recursion depth 'depth': the subordinates and,
\* for each, its own subordinates; RecursionError where the interpreter
\* gave up.
RECURSIVE get_all_subordinates_at(_, _)
get_all_subordinates_at(c, depth) ==
    IF depth > RecursionLimit THEN {RecursionError}
    ELSE UNION { {s} \cup get_all_subordinates_at(s, depth + 1)
                 : s \in get_subordinates(c) }

get_all_subordinates(c) == get_all_subordinates_at(c, 0)

NextLadder ==
    \E c \in CollaboratorIds, role \in ROLE_CHOICES,
       m \in CollaboratorIds \cup {None} : save(c, role, m)

SpecLadder == Init /\ [][NextLadder]_vars

\* C10: after any sequence of saves that pass clean(), no collaborator is
\* among its own direct or indirect subordinates, and get_all_subordinates
\* terminates for every collaborator.
C10_NoManagerCycle ==
    \A c \in CollaboratorIds :
        Persisted(c) =>
            /\ c \notin get_all_subordinates(c)
            /\ RecursionError \notin get_all_subordinates(c)

(***************************************************************************)
(* The organizational tree and the collaborators placed in it.  The final  *)
(* Cluster / Entity / Department / Service models and the final            *)
(* Collaborator validation are not part of the sources: they follow        *)
(* sections 3 and 4.3 of the specification.                                *)
(***************************************************************************)
Clusters == {"k1"}

Entities == {"e1"}

Departments == {"d1"}

Services == {"s1", "s2"}

\* entity.cluster, department.entity, service.department
entity_cluster == [e \in Entities |-> "k1"]

department_entity == [d \in Departments |-> "e1"]

service_department == [s \in Services |-> "d1"]

Roles == {"employee", "manager", "department_director", "entity_director",
          "pole_director", "admin"}

PlacementFields == {"cluster", "entity", "department", "service"}

\* The rows of the table other than the row of c.
Others(c) == {o \in CollaboratorIds \ {c} : Persisted(o)}

\* The outcome of a validation: the field of the error ("" when there is
\* none) and the row with its derived placement.
Invalid(field, row) == [error |-> field, row |-> row]

Valid(row) == [error |-> "", row |-> row]

\* Another active collaborator holds pole_director for the cluster.
IncumbentPoleDirector(c, cluster) ==
    \E o \in Others(c) :
        /\ collaborators[o].role = "pole_director"
        /\ collaborators[o].cluster = cluster
        /\ collaborators[o].is_active

\* Another collaborator holds the role for the unit named by the field.
Incumbent(c, role, field, unit) ==
    \E o \in Others(c) :
        /\ collaborators[o].role = role
        /\ collaborators[o][field] = unit

\* Mutant: the manager's role is compared, its placement is not.
ManagerFits_RoleOnly(row, role, fields) ==
    collaborators[row.manager].role = role

\* The manager reference points to a collaborator of the role one tier up
\* whose placement agrees with the row's on the given fields.
ManagerFits(row, role, fields) ==
    LET manager == collaborators[row.manager] IN
    /\ manager.role = role
    /\ \A f \in fields : manager[f] = row[f]

\* The validation of a pole director's row.
clean_pole_director(c, row) ==
    IF row.cluster = None \/ row.entity # None \/ row.department # None
       \/ row.service # None
    THEN Invalid("role", row)
    ELSE IF IncumbentPoleDirector(c, row.cluster) THEN Invalid("cluster", row)
    ELSE IF row.manager # None THEN Invalid("manager", row)
    ELSE Valid(row)

\* The validation of an entity director's row; its cluster is derived.
clean_entity_director(c, row) ==
    IF row.entity = None \/ row.department # None \/ row.service # None
    THEN Invalid("role", row)
    ELSE IF Incumbent(c, "entity_director", "entity", row.entity)
    THEN Invalid("entity", row)
    ELSE LET derived == [row EXCEPT !.cluster = entity_cluster[row.entity]] IN
         IF derived.manager # None
            /\ ~ManagerFits(derived, "pole_director", {"cluster"})
         THEN Invalid("manager", derived)
         ELSE Valid(derived)

\* The validation of a department director's row; its entity and cluster
\* are derived.
clean_department_director(c, row) ==
    IF row.department = None \/ row.service # None
    THEN Invalid("role", row)
    ELSE IF Incumbent(c, "department_director", "department", row.department)
    THEN Invalid("department", row)
    ELSE LET entity == department_entity[row.department]
             derived == [row EXCEPT !.entity = entity,
                                    !.cluster = entity_cluster[entity]]
         IN IF derived.manager # None
               /\ ~ManagerFits(derived, "entity_director", {"entity", "cluster"})
            THEN Invalid("manager", derived)
            ELSE Valid(derived)

\* The validation of the row of a manager or an employee; its department,
\* entity and cluster are derived from the service.
clean_service_member(c, row) ==
    IF row.service = None THEN Invalid("role", row)
    ELSE LET department == service_department[row.service]
             entity == department_entity[department]
             derived == [row EXCEPT !.department = department,
                                    !.entity = entity,
                                    !.cluster = entity_cluster[entity]]
         IN IF row.role = "manager"
            THEN IF Incumbent(c, "manager", "service", row.service)
                 THEN Invalid("service", derived)
                 ELSE IF derived.manager # None
                         /\ ~ManagerFits(derived, "department_director",
                                         {"department", "entity", "cluster"})
                 THEN Invalid("manager", derived)
                 ELSE Valid(derived)
            ELSE IF derived.manager # None
                    /\ ~ManagerFits(derived, "manager",
                                    {"service", "department", "entity", "cluster"})
                 THEN Invalid("manager", derived)
                 ELSE Valid(derived)

\* The validation run before every save of the row of c.
full_clean(c, row) ==
    IF row.role = None
    THEN IF \E f \in PlacementFields : row[f] # None
         THEN Invalid("role", row)
         ELSE Valid(row)
    ELSE IF row.role = "admin" THEN Valid(row)
    ELSE IF row.role = "pole_director" THEN clean_pole_director(c, row)
    ELSE IF row.role = "entity_director" THEN clean_entity_director(c, row)
    ELSE IF row.role = "department_director"
    THEN clean_department_director(c, row)
    ELSE clean_service_member(c, row)

(***************************************************************************)
(* CollaboratorCreateSerializer (serializers.py) and the register and      *)
(* update-profile operations of AuthViewSet (views.py).  A request body is *)
(* a record of the fields it supplies.                                     *)
(***************************************************************************)
\* attrs.get(field)
get(attrs, field) == IF field \in DOMAIN attrs THEN attrs[field] ELSE None

\* Mutant: validate compares the passwords and leaves the placement alone.
validate_PasswordsOnly(attrs) ==
    IF get(attrs, "password") # get(attrs, "confirm_password")
    THEN "password" ELSE ""

\* CollaboratorCreateSerializer.validate: the field of the error it raises,
\* "" when it returns attrs.
validate(attrs) ==
    LET password == get(attrs, "password")
        confirm_password == get(attrs, "confirm_password")
        role == get(attrs, "role")
    IN
    IF password # None /\ confirm_password # None /\ password # confirm_password
    THEN "password"
    ELSE IF (password # None) # (confirm_password # None) THEN "password"
    ELSE IF role = "pole_director"
    THEN IF get(attrs, "entity") # None \/ get(attrs, "department") # None
            \/ get(attrs, "service") # None
         THEN "role"
         ELSE IF get(attrs, "cluster") = None THEN "cluster" ELSE ""
    ELSE IF role = "entity_director"
    THEN IF get(attrs, "department") # None \/ get(attrs, "service") # None
         THEN "role"
         ELSE IF get(attrs, "entity") = None THEN "entity" ELSE ""
    ELSE IF role = "department_director"
    THEN IF get(attrs, "service") # None THEN "role"
         ELSE IF get(attrs, "department") = None THEN "department" ELSE ""
    ELSE IF role = "manager" \/ role = "employee"
    THEN IF get(attrs, "service") = None THEN "service" ELSE ""
    ELSE ""

RowFields == PlacementFields \cup {"role", "manager", "is_active"}

\* The row create_user builds from the validated data; is_active defaults to
\* True.
NewCollaborator(validated_data) ==
    [role |-> get(validated_data, "role"),
     cluster |-> get(validated_data, "cluster"),
     entity |-> get(validated_data, "entity"),
     department |-> get(validated_data, "department"),
     service |-> get(validated_data, "service"),
     manager |-> get(validated_data, "manager"),
     is_active |-> IF "is_active" \in DOMAIN validated_data
                   THEN validated_data.is_active ELSE TRUE]

\* Mutant: the collaborator is created without the model validation.
create_Unvalidated(c, validated_data) == Valid(NewCollaborator(validated_data))

\* CollaboratorCreateSerializer.create: create_user, full_clean, save.  The
\* outcome is the error of the validation or the row that is saved.
create(c, validated_data) == full_clean(c, NewCollaborator(validated_data))

\* CollaboratorCreateSerializer.update: setattr of each supplied field on the
\* instance, full_clean, save.
update(c, validated_data) ==
    full_clean(c, [f \in RowFields |->
                     IF f \in DOMAIN validated_data THEN validated_data[f]
                     ELSE collaborators[c][f]])

\* The fields of the body the serializer rejects before validate() is called:
\* a taken email address, a required field that is missing, a manager that is
\* no row of the table.  The first of them in the order of Meta.fields.
FieldError(c, attrs, partial) ==
    IF ~partial /\ Persisted(c) THEN "email_address"
    ELSE IF ~partial /\ "password" \notin DOMAIN attrs THEN "password"
    ELSE IF ~partial /\ "confirm_password" \notin DOMAIN attrs
    THEN "confirm_password"
    ELSE IF get(attrs, "manager") # None /\ ~Persisted(get(attrs, "manager"))
    THEN "manager"
    ELSE ""

\* The refresh tokens a collaborator is issued.
MaxTokens == 2

\* A refresh token: the collaborator it was signed for and its serial among
\* the tokens of that collaborator (its jti).
Tokens == [user : CollaboratorIds, serial : 1..MaxTokens]

\* RefreshToken.for_user(user): a token the tables have not seen.
for_user(user) ==
    [user |-> user,
     serial |-> Cardinality({t \in outstanding : t.user = user}) + 1]

\* Mutant: the collaborator is written before the model validation runs.
register_SaveFirst(c, attrs) ==
    /\ LET field == FieldError(c, attrs, FALSE)
           error == IF field # "" THEN field ELSE validate(attrs)
       IN IF error # ""
          THEN /\ resp' = Response("register", None, 0, 400, error, 0)
               /\ UNCHANGED collaborators
          ELSE LET user == create(c, attrs) IN
               /\ collaborators' = [collaborators EXCEPT ![c] = user.row]
               /\ resp' = Response("register", None, 0,
                                   IF user.error # "" THEN 400 ELSE 201,
                                   user.error, 0)
    /\ outstanding' = IF resp'.status = 201
                      THEN outstanding \cup {for_user(c)} ELSE outstanding
    /\ UNCHANGED <<clock, emotion_types, emotions, next_id, inflight, blacklisted, started>>

\* POST /auth/register/ with the email address of c and the body attrs.  The
\* token pair is issued after the collaborator is saved.
register(c, attrs) ==
    /\ LET field == FieldError(c, attrs, FALSE)
           error == IF field # "" THEN field ELSE validate(attrs)
       IN IF error # ""
          THEN /\ resp' = Response("register", None, 0, 400, error, 0)
               /\ UNCHANGED collaborators
          ELSE LET user == create(c, attrs) IN
               IF user.error # ""
               THEN /\ resp' = Response("register", None, 0, 400, user.error, 0)
                    /\ UNCHANGED collaborators
               ELSE /\ collaborators' = [collaborators EXCEPT ![c] = user.row]
                    /\ resp' = Response("register", None, 0, 201, "", 0)
    /\ outstanding' = IF resp'.status = 201
                      THEN outstanding \cup {for_user(c)} ELSE outstanding
    /\ UNCHANGED <<clock, emotion_types, emotions, next_id, inflight, blacklisted, started>>

\* PUT or PATCH /auth/update-profile/ by the authenticated collaborator c.
update_profile(c, attrs) ==
    /\ Persisted(c)
    /\ LET field == FieldError(c, attrs, TRUE)
           error == IF field # "" THEN field ELSE validate(attrs)
       IN IF error # ""
          THEN /\ resp' = Response("update_profile", None, 0, 400, error, 0)
               /\ UNCHANGED collaborators
          ELSE LET user == update(c, attrs) IN
               IF user.error # ""
               THEN /\ resp' = Response("update_profile", None, 0, 400, user.error, 0)
                    /\ UNCHANGED collaborators
               ELSE /\ collaborators' = [collaborators EXCEPT ![c] = user.row]
                    /\ resp' = Response("update_profile", None, 0, 200, "", 0)
    /\ UNCHANGED <<clock, emotion_types, emotions, next_id, inflight, outstanding, blacklisted, started>>

(***************************************************************************)
(* The request bodies: the parts a body is put together from.              *)
(***************************************************************************)
\* A body that supplies none of the fields of a part.
NoFields == [f \in {} |-> None]

\* The roles with a place in the tree.  The administrators, whom the
\* validation leaves alone, are not among the collaborators of the model.
PlacedRoles == Roles \ {"admin"}

RoleParts == {[role |-> r] : r \in PlacedRoles}

\* The placements a body names: no unit, one unit, or a unit with its parent
\* (an entity with its cluster, a service with its department).
PlacementParts ==
    {p \in [cluster : Clusters \cup {None}, entity : Entities \cup {None},
            department : Departments \cup {None}, service : {"s1", None}] :
        LET named == {f \in PlacementFields : p[f] # None} IN
        \/ Cardinality(named) = 0
        \/ named \in {{"cluster", "entity"}, {"department", "service"}}}
    \cup {unit @@ [cluster |-> None, entity |-> None, department |-> None,
                    service |-> None] :
            unit \in [cluster : Clusters] \cup [entity : Entities]
                     \cup [department : Departments] \cup [service : Services]}

ManagerParts == {[manager |-> m] : m \in CollaboratorIds \cup {None}}

ActiveParts == {[is_active |-> a] : a \in BOOLEAN}

MatchingPasswords == [password |-> "p", confirm_password |-> "p"]

\* password and confirm_password differ; confirm_password is missing.
BadPasswords == {[password |-> "p", confirm_password |-> "q"],
                 [password |-> "p"]}

\* The bodies of register: every placed role, placement and manager with a
\* confirmed password, is_active left to its default, and a body for each
\* way of getting the password wrong.
RegisterBodies ==
    {r @@ p @@ m @@ MatchingPasswords :
        r \in RoleParts, p \in PlacementParts, m \in ManagerParts}
    \cup {[role |-> "employee", service |-> "s1"] @@ pw : pw \in BadPasswords}

\* The bodies of update-profile: the role, the placement and the manager are
\* each supplied or left out; a change of is_active or of the password comes
\* alone.
UpdateBodies ==
    {r @@ p @@ m :
        r \in RoleParts \cup {NoFields}, p \in PlacementParts \cup {NoFields},
        m \in ManagerParts \cup {NoFields}}
    \cup ActiveParts \cup {MatchingPasswords} \cup BadPasswords

NextHierarchy ==
    \/ \E c \in CollaboratorIds, attrs \in RegisterBodies : register(c, attrs)
    \/ \E c \in CollaboratorIds, attrs \in UpdateBodies : update_profile(c, attrs)

SpecHierarchy == Init /\ [][NextHierarchy]_vars

(***************************************************************************)
(* Properties of the collaborators' placement.                             *)
(***************************************************************************)
\* The collaborators that hold the role for the unit named by the field.
Occupants(role, field, unit) ==
    {c \in CollaboratorIds :
        /\ Persisted(c)
        /\ collaborators[c].role = role
        /\ collaborators[c][field] = unit}

ActiveOccupants(role, field, unit) ==
    {c \in Occupants(role, field, unit) : collaborators[c].is_active}

\* One entity director per Entity, one department director per Department,
\* one manager per Service.
OneOccupantBelowCluster ==
    /\ \A e \in Entities : Cardinality(Occupants("entity_director", "entity", e)) <= 1
    /\ \A d \in Departments :
         Cardinality(Occupants("department_director", "department", d)) <= 1
    /\ \A s \in Services : Cardinality(Occupants("manager", "service", s)) <= 1

SerializerSave(c, validated_data) ==
    IF Persisted(c) THEN update(c, validated_data) ELSE create(c, validated_data)

\* The data of an employee of service s with manager m.
EmployeeOf(s, m) == [role |-> "employee", service |-> s, manager |-> m]

module_today_Fresh == today

\* today = timezone.localdate(), at the start of the process
module_today == started

module_week_number == WeekNumberOf(module_today)

module_year == YearOf(module_today)

module_month == MonthOf(module_today)

Periods == {"day", "week", "month"}

\* get_emotions_for_period(collaborators, period)
get_emotions_for_period(cs, period) ==
    {e \in emotions :
        /\ e.collaborator \in cs
        /\ IF period = "day" THEN e.day = module_today
           ELSE IF period = "week"
           THEN e.week_number = module_week_number /\ e.year = module_year
           ELSE e.month = module_month /\ e.year = module_year}

\* sum([e.emotion_degree for e in es])
RECURSIVE DegreeSum(_)
DegreeSum(es) ==
    IF es = {} THEN 0
    ELSE LET e == CHOOSE x \in es : TRUE IN
         e.emotion_degree + DegreeSum(es \ {e})

\* Mutant: a sum of zero counts as negative.
general_humor_ZeroNegative(degree) ==
    IF degree > 0 THEN "positive" ELSE "negative"

general_humor(degree) ==
    IF degree > 0 THEN "positive"
    ELSE IF degree < 0 THEN "negative"
    ELSE "neutral"

\* Mutant: the limits of the negative bands are taken strictly.
get_emotion_label_Strict(degree) ==
    IF degree < -5 THEN "angry"
    ELSE IF degree < -2 THEN "anxious"
    ELSE IF degree < 0 THEN "sad"
    ELSE IF degree = 0 THEN "neutral"
    ELSE IF degree < 5 THEN "happy"
    ELSE "excited"

get_emotion_label(degree) ==
    IF degree <= -5 THEN "angry"
    ELSE IF degree <= -2 THEN "anxious"
    ELSE IF degree <= -1 THEN "sad"
    ELSE IF degree = 0 THEN "neutral"
    ELSE IF 0 < degree /\ degree < 5 THEN "happy"
    ELSE IF degree >= 5 THEN "excited"
    ELSE "neutral"

\* department.services.all(), entity.departments.all(), cluster.entities.all()
ServicesOf(d) == {s \in Services : service_department[s] = d}

DepartmentsOf(e) == {d \in Departments : department_entity[d] = e}

EntitiesOf(k) == {e \in Entities : entity_cluster[e] = k}

\* service.collaborators.all()
ServiceCollaborators(s) ==
    {c \in CollaboratorIds : Persisted(c) /\ collaborators[c].service = s}

\* The summed degree of a service for a period, and its general humor.
ServiceDegree(s, period) ==
    DegreeSum(get_emotions_for_period(ServiceCollaborators(s), period))

ServiceHumor(s, period) == general_humor(ServiceDegree(s, period))

\* Mutant: only the humor of the day flags a service.
service_to_supervise_DayOnly(d) ==
    {s \in ServicesOf(d) : ServiceHumor(s, "day") = "negative"}

\* The service_to_supervise list of a department: the services with a
\* negative general humor of the day, the week or the month.
service_to_supervise(d) ==
    {s \in ServicesOf(d) :
        \/ ServiceHumor(s, "day") = "negative"
        \/ ServiceHumor(s, "week") = "negative"
        \/ ServiceHumor(s, "month") = "negative"}

\* Mutant: a department is flagged only when all its services are.
department_to_supervise_Every(e) ==
    {d \in DepartmentsOf(e) : service_to_supervise(d) = ServicesOf(d)}

\* if service_to_supervise: department_to_supervise.append(department.name)
department_to_supervise(e) ==
    {d \in DepartmentsOf(e) : service_to_supervise(d) # {}}

entity_to_supervise(k) ==
    {e \in EntitiesOf(k) : department_to_supervise(e) # {}}

cluster_to_supervise == {k \in Clusters : entity_to_supervise(k) # {}}

(***************************************************************************)
(* The access checks at the head of each view, and the views as            *)
(* operations: a GET that answers with a status and leaves the tables as   *)
(* they are.                                                               *)
(***************************************************************************)
Answer(st, err) == [status |-> st, error |-> err]

\* Mutant: the unit of the caller is not looked at.
DirectorAccess_NoUnitCheck(c, role, unit, denied, unassigned) ==
    IF collaborators[c].role # role THEN Answer(403, denied)
    ELSE Answer(200, "")

\* The checks of a director's view: the role, then the unit of the caller.
DirectorAccess(c, role, unit, denied, unassigned) ==
    IF collaborators[c].role # role THEN Answer(403, denied)
    ELSE IF collaborators[c][unit] = None THEN Answer(400, unassigned)
    ELSE Answer(200, "")

manager_access(c) ==
    IF collaborators[c].role # "manager" THEN Answer(403, "You are not a manager")
    ELSE Answer(200, "")

department_director_access(c) ==
    DirectorAccess(c, "department_director", "department",
                   "You are not a department director", "No department assigned")

entity_director_access(c) ==
    DirectorAccess(c, "entity_director", "entity",
                   "You are not an entity director", "No entity assigned")

pole_director_access(c) ==
    DirectorAccess(c, "pole_director", "cluster",
                   "You are not a pole director", "No cluster assigned")

drh_access(c) ==
    IF collaborators[c].role # "admin" THEN Answer(403, "Vous n'etes pas un DRH")
    ELSE Answer(200, "")

\* A view called by the authenticated collaborator c.
View(name, c, answer) ==
    /\ Persisted(c)
    /\ resp' = Response(name, c, 0, answer.status, answer.error, 0)
    /\ UNCHANGED <<clock, emotion_types, emotions, next_id, inflight, collaborators, outstanding, blacklisted, started>>

manager_overview(c) == View("manager_overview", c, manager_access(c))

department_director_overview(c) ==
    View("department_director_overview", c, department_director_access(c))

entity_director_overview(c) ==
    View("entity_director_overview", c, entity_director_access(c))

pole_director_overview(c) ==
    View("pole_director_overview", c, pole_director_access(c))

\* DrhOverviewSet is not registered in urls.py; its views are modelled as
\* the methods of views.py.
drh_overview(c) == View("drh_overview", c, drh_access(c))

(***************************************************************************)
(* The PDF views: the checks of the overview are repeated, then the        *)
(* overview is called and the document is built from its data.             *)
(***************************************************************************)
\* Mutant: the PDF view checks the role only.
PdfGate_RoleOnly(c, role, unit, denied, unassigned) ==
    DirectorAccess_NoUnitCheck(c, role, unit, denied, unassigned)

\* The checks at the head of a director's PDF view.
PdfGate(c, role, unit, denied, unassigned) ==
    DirectorAccess(c, role, unit, denied, unassigned)

\* overview = self.<tier>_overview(request).data, then the keys of the
\* report are read from it: an error body has none of them.
Rendered(gate, overview) ==
    IF gate.status # 200 THEN gate
    ELSE IF overview.status # 200 THEN Answer(500, "KeyError")
    ELSE Answer(200, "")

department_director_pdf_answer(c) ==
    Rendered(PdfGate(c, "department_director", "department",
                     "You are not a department director", "No department assigned"),
             department_director_access(c))

entity_director_pdf_answer(c) ==
    Rendered(PdfGate(c, "entity_director", "entity",
                     "You are not an entity director", "No entity assigned"),
             entity_director_access(c))

pole_director_pdf_answer(c) ==
    Rendered(PdfGate(c, "pole_director", "cluster",
                     "You are not a pole director", "No cluster assigned"),
             pole_director_access(c))

drh_pdf_answer(c) ==
    Rendered(IF collaborators[c].role # "admin"
             THEN Answer(403, "Vous n'etes pas un DRH") ELSE Answer(200, ""),
             drh_access(c))

department_director_reporting_pdf(c) ==
    View("department_director_reporting_pdf", c, department_director_pdf_answer(c))

entity_director_reporting_pdf(c) ==
    View("entity_director_reporting_pdf", c, entity_director_pdf_answer(c))

pole_director_reporting_pdf(c) ==
    View("pole_director_reporting_pdf", c, pole_director_pdf_answer(c))

drh_reporting_pdf(c) == View("drh_reporting_pdf", c, drh_pdf_answer(c))

(***************************************************************************)
(* The reports over a staffed tree: the collaborators are in place when    *)
(* the process starts, they submit emotions as time passes, and the views  *)
(* are called in between.                                                  *)
(***************************************************************************)
\* The row of an active collaborator.
Member(role, cluster, entity, department, service, manager) ==
    [role |-> role, cluster |-> cluster, entity |-> entity,
     department |-> department, service |-> service, manager |-> manager,
     is_active |-> TRUE]

Staff(row1, row2) == [c \in CollaboratorIds |-> IF c = "c1" THEN row1 ELSE row2]

\* The staffings the reports are computed over: two employees of one
\* service; an employee and the manager of another service; a manager and
\* its employee; a director of each tier and an administrator, each with an
\* employee below; an administrator and a department director whose
\* department was deleted; an entity director and a pole director whose
\* units were deleted.
Staffings ==
    {Staff(Member("employee", "k1", "e1", "d1", "s1", None),
           Member("employee", "k1", "e1", "d1", "s1", None)),
     Staff(Member("employee", "k1", "e1", "d1", "s1", None),
           Member("manager", "k1", "e1", "d1", "s2", None)),
     Staff(Member("manager", "k1", "e1", "d1", "s1", None),
           Member("employee", "k1", "e1", "d1", "s1", "c1")),
     Staff(Member("department_director", "k1", "e1", "d1", None, None),
           Member("employee", "k1", "e1", "d1", "s1", None)),
     Staff(Member("entity_director", "k1", "e1", None, None, None),
           Member("employee", "k1", "e1", "d1", "s1", None)),
     Staff(Member("pole_director", "k1", None, None, None, None),
           Member("employee", "k1", "e1", "d1", "s2", None)),
     Staff(Member("admin", None, None, None, None, None),
           Member("employee", "k1", "e1", "d1", "s1", None)),
     Staff(Member("admin", None, None, None, None, None),
           Member("department_director", None, None, None, None, None)),
     Staff(Member("entity_director", None, None, None, None, None),
           Member("pole_director", None, None, None, None, None))}

InitReport ==
    /\ clock = 24 * FirstDay + 8
    /\ emotion_types = InitEmotionTypes
    /\ emotions = {}
    /\ next_id = 1
    /\ resp = NoResponse
    /\ inflight = [r \in Requests |-> Idle]
    /\ collaborators \in Staffings
    /\ outstanding = {}
    /\ blacklisted = {}
    /\ started = today

\* The emotion_degree values a client puts in the body of a create: none is
\* the degree of an emotion type.
SuppliedDegrees == {0, 5}

\* Mutant: the degree of the body is stored.
StoredDegree_Supplied(t, supplied) == supplied

\* EmotionSerializer.create: validated_data['emotion_degree'] =
\* emotion_type.degree, and Emotion.save copies the degree of the type again.
StoredDegree(t, supplied) == emotion_types[t].degree

\* POST /emotions/ with {emotion_type: t, collaborator: c, emotion_degree: g}
CreateWithDegree(c, t, g) ==
    /\ EmotionTypeExists(t)
    /\ next_id <= MaxEmotions
    /\ emotions' = emotions \cup
                      {[NewEmotion(c, t) EXCEPT !.emotion_degree = StoredDegree(t, g)]}
    /\ next_id' = next_id + 1
    /\ resp' = Response("create_with_degree", c, t, 201, "", next_id)
    /\ UNCHANGED <<clock, emotion_types, inflight, collaborators, outstanding, blacklisted, started>>

\* The night passes: the next request arrives on the morning after.
Midnight ==
    /\ today < LastDay
    /\ clock' = 24 * (today + 1) + 8
    /\ resp' = NoResponse
    /\ UNCHANGED <<emotion_types, emotions, next_id, inflight, collaborators, outstanding, blacklisted, started>>

NextReport ==
    \/ \E c \in CollaboratorIds, t \in DOMAIN InitEmotionTypes : SubmitEmotion(c, t)
    \/ \E c \in CollaboratorIds, t \in DOMAIN InitEmotionTypes : DefaultCreate(c, t, c)
    \/ \E c \in CollaboratorIds, t \in DOMAIN InitEmotionTypes, g \in SuppliedDegrees :
          CreateWithDegree(c, t, g)
    \/ Midnight
    \/ \E c \in CollaboratorIds : manager_overview(c)
    \/ \E c \in CollaboratorIds : department_director_overview(c)
    \/ \E c \in CollaboratorIds : entity_director_overview(c)
    \/ \E c \in CollaboratorIds : pole_director_overview(c)
    \/ \E c \in CollaboratorIds : drh_overview(c)
    \/ \E c \in CollaboratorIds : department_director_reporting_pdf(c)
    \/ \E c \in CollaboratorIds : entity_director_reporting_pdf(c)
    \/ \E c \in CollaboratorIds : pole_director_reporting_pdf(c)
    \/ \E c \in CollaboratorIds : drh_reporting_pdf(c)

SpecReport == InitReport /\ [][NextReport]_vars

(***************************************************************************)
(* Supervision flags.                                                      *)
(***************************************************************************)
\* Collaborator.emotion_degree_this_week: the sum of the degrees of the
\* collaborator's emotions of the current ISO week and year.
emotion_degree_this_week(c) ==
    DegreeSum({e \in emotions :
                 /\ e.collaborator = c
                 /\ e.week_number = WeekNumberOf(today)
                 /\ e.year = YearOf(today)})

\* The week degree of one collaborator over the week window of the views.
WeekDegreeOf(c) == DegreeSum(get_emotions_for_period({c}, "week"))

WindowRows(s, period) ==
    {e \in emotions :
        /\ collaborators[e.collaborator].service = s
        /\ \/ period = "day" /\ e.day = module_today
           \/ period = "week" /\ e.week_number = module_week_number
                               /\ e.year = module_year
           \/ period = "month" /\ e.month = module_month /\ e.year = module_year}

Overviews ==
    {"department_director_overview", "entity_director_overview",
     "pole_director_overview", "drh_overview"}

\* C13: in every reporting tier a service is in service_to_supervise if and
\* only if the summed emotion_degree of the emotions of all its collaborators
\* is negative for the day, the week or the month.
C13_ServiceFlaggedIffNegativeSum ==
    \A d \in Departments : \A s \in ServicesOf(d) :
        s \in service_to_supervise(d)
            <=> \E period \in Periods : DegreeSum(WindowRows(s, period)) < 0

\* C13 witness: a reporting view is answered while a service is flagged for
\* its week alone: its sums of the day and of the month are zero.
C13_Witness ==
    /\ resp.op \in Overviews
    /\ resp.status = 200
    /\ \E d \in Departments : \E s \in service_to_supervise(d) :
         /\ DegreeSum(WindowRows(s, "week")) < 0
         /\ DegreeSum(WindowRows(s, "day")) = 0
         /\ DegreeSum(WindowRows(s, "month")) = 0

\* C14: the flags propagate upward one tier per level: a department is in
\* department_to_supervise iff one of its services is in the department's
\* service_to_supervise, an entity is in entity_to_supervise iff one of its
\* departments is flagged, a cluster is in cluster_to_supervise iff one of
\* its entities is flagged.
C14_FlagsPropagateUpward ==
    /\ \A e \in Entities : \A d \in DepartmentsOf(e) :
          d \in department_to_supervise(e)
              <=> \E s \in ServicesOf(d) : s \in service_to_supervise(d)
    /\ \A k \in Clusters : \A e \in EntitiesOf(k) :
          e \in entity_to_supervise(k)
              <=> \E d \in DepartmentsOf(e) : d \in department_to_supervise(e)
    /\ \A k \in Clusters :
          k \in cluster_to_supervise
              <=> \E e \in EntitiesOf(k) : e \in entity_to_supervise(k)

\* C14 witness: the pole director or the administrator is answered while
\* one service of a department is flagged and another is not, and the
\* department, its entity and its cluster are flagged.
C14_Witness ==
    /\ resp.op \in {"pole_director_overview", "drh_overview"}
    /\ resp.status = 200
    /\ \E k \in cluster_to_supervise : \E e \in entity_to_supervise(k) :
         \E d \in department_to_supervise(e) :
            /\ service_to_supervise(d) # {}
            /\ service_to_supervise(d) # ServicesOf(d)

(***************************************************************************)
(* Roll-up of the degree sums: every tier adds up the totals of the tier   *)
(* below.                                                                  *)
(***************************************************************************)
\* total_emotion_degree_<period>_department += degree_<period>
RECURSIVE ServiceDegrees(_, _)
ServiceDegrees(ss, period) ==
    IF ss = {} THEN 0
    ELSE LET s == CHOOSE x \in ss : TRUE IN
         ServiceDegree(s, period) + ServiceDegrees(ss \ {s}, period)

total_emotion_degree_department(d, period) == ServiceDegrees(ServicesOf(d), period)

\* total_emotion_degree_<period>_entity += total_emotion_degree_<period>_department
RECURSIVE DepartmentDegrees(_, _)
DepartmentDegrees(ds, period) ==
    IF ds = {} THEN 0
    ELSE LET d == CHOOSE x \in ds : TRUE IN
         total_emotion_degree_department(d, period) + DepartmentDegrees(ds \ {d}, period)

total_emotion_degree_entity(e, period) == DepartmentDegrees(DepartmentsOf(e), period)

\* total_emotion_degree_<period>_cluster += total_emotion_degree_<period>_entity
RECURSIVE EntityDegrees(_, _)
EntityDegrees(es, period) ==
    IF es = {} THEN 0
    ELSE LET e == CHOOSE x \in es : TRUE IN
         total_emotion_degree_entity(e, period) + EntityDegrees(es \ {e}, period)

total_emotion_degree_cluster(k, period) == EntityDegrees(EntitiesOf(k), period)

\* total_emotion_degree_<period>_axian += total_emotion_degree_<period>_cluster
RECURSIVE ClusterDegrees(_, _)
ClusterDegrees(ks, period) ==
    IF ks = {} THEN 0
    ELSE LET k == CHOOSE x \in ks : TRUE IN
         total_emotion_degree_cluster(k, period) + ClusterDegrees(ks \ {k}, period)

total_emotion_degree_axian(period) == ClusterDegrees(Clusters, period)

\* department.collaborators.all(), entity.collaborators.all(),
\* cluster.collaborators.all(), Collaborator.objects.all()
UnitCollaborators(field, unit) ==
    {c \in CollaboratorIds : Persisted(c) /\ collaborators[c][field] = unit}

AllCollaborators == {c \in CollaboratorIds : Persisted(c)}

\* The degree sum of a period computed directly over a set of collaborators.
DirectDegree(cs, period) == DegreeSum(get_emotions_for_period(cs, period))

\* C15: roll-up additivity: the month degree summed directly over the
\* collaborators of a department equals the sum of the month sums of its
\* services, and the same from departments to entity, entities to cluster
\* and clusters to the global total.
C15_RollUpAdditive ==
    /\ \A d \in Departments :
          DirectDegree(UnitCollaborators("department", d), "month")
              = total_emotion_degree_department(d, "month")
    /\ \A e \in Entities :
          DirectDegree(UnitCollaborators("entity", e), "month")
              = total_emotion_degree_entity(e, "month")
    /\ \A k \in Clusters :
          DirectDegree(UnitCollaborators("cluster", k), "month")
              = total_emotion_degree_cluster(k, "month")
    /\ DirectDegree(AllCollaborators, "month") = total_emotion_degree_axian("month")

(***************************************************************************)
(* Majority vote over the general humors of the children of a unit.        *)
(***************************************************************************)
\* The most children a vote is checked over.
MaxChildren == 3

HumorTags == {"positive", "negative", "neutral"}

\* humors.count(tag), humors given as a function from the children to tags
Count(humors, tag) == Cardinality({x \in DOMAIN humors : humors[x] = tag})

\* Mutant: one negative child makes the parent negative.
aggregate_general_humor_AnyNegative(humors) ==
    IF Count(humors, "negative") > 0 THEN "negative"
    ELSE IF Count(humors, "positive") > 0 THEN "positive"
    ELSE "neutral"

aggregate_general_humor(humors) ==
    LET count_positive == Count(humors, "positive")
        count_negative == Count(humors, "negative")
    IN  IF count_positive > count_negative THEN "positive"
        ELSE IF count_negative > count_positive THEN "negative"
        ELSE "neutral"

\* services_data[...]['general_humor_<period>'] of a department, and the
\* department's own general humor.
ServiceHumors(d, period) == [s \in ServicesOf(d) |-> ServiceHumor(s, period)]

DepartmentHumor(d, period) == aggregate_general_humor(ServiceHumors(d, period))

\* departments_data[...]['general_humor_<period>'] of an entity, and the
\* entity's own general humor.
DepartmentHumors(e, period) == [d \in DepartmentsOf(e) |-> DepartmentHumor(d, period)]

EntityHumor(e, period) == aggregate_general_humor(DepartmentHumors(e, period))

\* The vote is the majority of positive against negative children.
IsMajority(humors, result) ==
    /\ result = "positive" <=> Count(humors, "positive") > Count(humors, "negative")
    /\ result = "negative" <=> Count(humors, "negative") > Count(humors, "positive")
    /\ result = "neutral" <=> Count(humors, "negative") = Count(humors, "positive")

\* C16: the aggregate of the children's general humors is 'positive' iff the
\* positive children outnumber the negative ones, 'negative' iff the negative
\* outnumber the positive, 'neutral' otherwise; one positive and one negative
\* child give 'neutral' and no child gives 'neutral'.
C16_MajorityVote ==
    /\ \A n \in 0..MaxChildren : \A humors \in [1..n -> HumorTags] :
          IsMajority(humors, aggregate_general_humor(humors))
    /\ aggregate_general_humor(<<"positive", "negative">>) = "neutral"
    /\ aggregate_general_humor(<<>>) = "neutral"
    /\ \A period \in Periods :
          /\ \A d \in Departments :
                IsMajority(ServiceHumors(d, period), DepartmentHumor(d, period))
          /\ \A e \in Entities :
                IsMajority(DepartmentHumors(e, period), EntityHumor(e, period))

\* C16 witness: a reporting view is answered while a department has one
\* negative and one neutral service in the week, which makes its week
\* negative, and no negative service in the day, which makes its day neutral.
C16_Witness ==
    /\ resp.op \in Overviews
    /\ resp.status = 200
    /\ \E d \in Departments :
         /\ Count(ServiceHumors(d, "week"), "negative") = 1
         /\ Count(ServiceHumors(d, "week"), "neutral") = 1
         /\ DepartmentHumor(d, "week") = "negative"
         /\ DepartmentHumor(d, "day") = "neutral"

(***************************************************************************)
(* Participation of the day: the submissions of the day against two per    *)
(* collaborator.  A float is kept as an exact fraction num / den, den > 0. *)
(***************************************************************************)
\* The largest collaborator set and submitted count the percentage is
\* checked over.
MaxSetSize == 2

MaxSubmitted == 5

Ratio(n, d) == [num |-> n, den |-> d]

\* Mutant: the ratio is not capped at 1.
percent_day_Uncapped(S, N) ==
    LET ratio == IF N > 0 THEN Ratio(S, N * 2) ELSE Ratio(0, 1)
    IN  Ratio(ratio.num * 100, ratio.den)

\* percent_day = min(1.0, S / (N * 2) if N > 0 else 0) * 100
percent_day(S, N) ==
    LET ratio == IF N > 0 THEN Ratio(S, N * 2) ELSE Ratio(0, 1)
        capped == IF ratio.den < ratio.num THEN Ratio(1, 1) ELSE ratio
    IN  Ratio(capped.num * 100, capped.den)

\* manager.subordinates.all()
subordinates(m) ==
    {c \in CollaboratorIds : Persisted(c) /\ collaborators[c].manager = m}

\* percent_day of the manager view and of a service in the directors' views.
manager_percent_day(m) ==
    percent_day(Cardinality(get_emotions_for_period(subordinates(m), "day")),
                Cardinality(subordinates(m)))

service_percent_day(s) ==
    percent_day(Cardinality(get_emotions_for_period(ServiceCollaborators(s), "day")),
                Cardinality(ServiceCollaborators(s)))

\* p is the percentage the claim gives for S submissions of N collaborators:
\* within [0, 100], min(1, S / (2N)) * 100 when N > 0, and 0 when N = 0.
IsDayPercentage(p, S, N) ==
    /\ p.den > 0
    /\ 0 <= p.num
    /\ p.num <= 100 * p.den
    /\ N = 0 => p.num = 0
    /\ N > 0 /\ S >= 2 * N => p.num = 100 * p.den
    /\ N > 0 /\ S < 2 * N => p.num * 2 * N = 100 * S * p.den

\* C17: for every collaborator set of size N and every submitted count S the
\* day-participation percentage is within [0, 100], is min(1, S / (2N)) * 100
\* when N > 0 and 0 when N = 0.
C17_DayParticipation ==
    /\ \A N \in 0..MaxSetSize : \A S \in 0..MaxSubmitted :
          IsDayPercentage(percent_day(S, N), S, N)
    /\ \A m \in CollaboratorIds :
          IsDayPercentage(manager_percent_day(m),
                          Cardinality(get_emotions_for_period(subordinates(m), "day")),
                          Cardinality(subordinates(m)))
    /\ \A s \in Services :
          IsDayPercentage(service_percent_day(s),
                          Cardinality(get_emotions_for_period(ServiceCollaborators(s), "day")),
                          Cardinality(ServiceCollaborators(s)))

\* C17 witness: a manager is answered while its one subordinate has both
\* submissions of the day, so that the percentage is 100, and a service
\* without collaborators has a percentage of 0.
C17_Witness ==
    /\ resp.op = "manager_overview"
    /\ resp.status = 200
    /\ Cardinality(subordinates(resp.caller)) = 1
    /\ Cardinality(get_emotions_for_period(subordinates(resp.caller), "day")) = 2
    /\ manager_percent_day(resp.caller).num = 100 * manager_percent_day(resp.caller).den
    /\ \E s \in Services : ServiceCollaborators(s) = {} /\ service_percent_day(s).num = 0

(***************************************************************************)
(* Access to the reporting views.                                          *)
(***************************************************************************)
\* The role a director's view asks for and the unit it reports on.
DirectorViews ==
    [department_director_overview |-> [role |-> "department_director", unit |-> "department"],
     entity_director_overview |-> [role |-> "entity_director", unit |-> "entity"],
     pole_director_overview |-> [role |-> "pole_director", unit |-> "cluster"]]

\* The answer of the overview named op to the caller c.
OverviewAnswer(op, c) ==
    IF op = "manager_overview" THEN manager_access(c)
    ELSE IF op = "department_director_overview" THEN department_director_access(c)
    ELSE IF op = "entity_director_overview" THEN entity_director_access(c)
    ELSE IF op = "pole_director_overview" THEN pole_director_access(c)
    ELSE drh_access(c)

\* C18: the manager overview answers 403 to every caller whose role is not
\* 'manager'; each director overview answers 403 to a caller without the
\* required role and 400 to a caller with the role and no department, entity
\* or cluster; these answers carry the error alone, no aggregate.
C18_RoleGatedAccess ==
    /\ \A c \in CollaboratorIds :
          Persisted(c) /\ collaborators[c].role # "manager" =>
              /\ manager_access(c).status = 403
              /\ manager_access(c).error # ""
    /\ \A op \in DOMAIN DirectorViews : \A c \in CollaboratorIds :
          Persisted(c) =>
              LET answer == OverviewAnswer(op, c)
                  view == DirectorViews[op]
              IN  /\ collaborators[c].role # view.role =>
                        answer.status = 403 /\ answer.error # ""
                  /\ (collaborators[c].role = view.role
                        /\ collaborators[c][view.unit] = None) =>
                        answer.status = 400 /\ answer.error # ""
    /\ resp.op \in DOMAIN DirectorViews \cup {"manager_overview"} =>
          /\ resp.status = OverviewAnswer(resp.op, resp.caller).status
          /\ resp.error = OverviewAnswer(resp.op, resp.caller).error

\* C18 witness: the department-director overview has answered 400 to a
\* department director without a department, whom the manager overview
\* refuses with 403.
C18_Witness ==
    /\ resp.op = "department_director_overview"
    /\ resp.status = 400
    /\ resp.error = "No department assigned"
    /\ collaborators[resp.caller].role = "department_director"
    /\ collaborators[resp.caller].department = None
    /\ manager_access(resp.caller).status = 403

\* The PDF view of each overview and its answer to the caller c.
PdfViews ==
    [department_director_reporting_pdf |-> "department_director_overview",
     entity_director_reporting_pdf |-> "entity_director_overview",
     pole_director_reporting_pdf |-> "pole_director_overview",
     drh_reporting_pdf |-> "drh_overview"]

PdfAnswer(op, c) ==
    IF op = "department_director_reporting_pdf" THEN department_director_pdf_answer(c)
    ELSE IF op = "entity_director_reporting_pdf" THEN entity_director_pdf_answer(c)
    ELSE IF op = "pole_director_reporting_pdf" THEN pole_director_pdf_answer(c)
    ELSE drh_pdf_answer(c)

C20_StoredDegreeIsTypeDegree ==
    /\ \A e \in emotions : e.emotion_degree = emotion_types[e.emotion_type].degree
    /\ resp.op = "create_with_degree" /\ resp.status = 201 =>
          \E e \in emotions :
             /\ e.id = resp.id
             /\ e.emotion_type = resp.emotion_type
             /\ e.emotion_degree = emotion_types[resp.emotion_type].degree
             /\ e.emotion_degree \notin SuppliedDegrees

\* C20 witness: a create whose body carried an emotion_degree was answered
\* 201 for the emotion type SAD and the stored row has the degree of SAD.
C20_Witness ==
    /\ resp.op = "create_with_degree"
    /\ resp.status = 201
    /\ \E e \in emotions :
         /\ e.id = resp.id
         /\ emotion_types[e.emotion_type].name = "SAD"
         /\ e.emotion_degree = -1

(***************************************************************************)
(* EmotionType.clean and EmotionType.save (models.py): the catalog of      *)
(* emotion types as the ORM writes it.                                     *)
(***************************************************************************)
\* Rows of the catalog.
MaxTypes == 3

\* The names and degrees a caller sets on an EmotionType before saving it.
TypeNameInputs == DOMAIN EMOTION_DEGREES \cup {"BORED"}

TypeDegreeInputs == {0, 7}

\* Mutant: the degree the caller set is kept.
EmotionType_clean_KeepDegree(name, degree) ==
    IF name \notin DOMAIN EMOTION_DEGREES
    THEN [error |-> "name", degree |-> degree]
    ELSE [error |-> "", degree |-> degree]

\* EmotionType.clean: a ValidationError on 'name', or the degree of the table.
EmotionType_clean(name, degree) ==
    IF name \notin DOMAIN EMOTION_DEGREES
    THEN [error |-> "name", degree |-> degree]
    ELSE [error |-> "", degree |-> EMOTION_DEGREES[name]]

\* EmotionType(pk=id, name=name, degree=degree).save(): clean, then the
\* INSERT or UPDATE, which the unique index on 'name' can refuse.
EmotionType_save(id, name, degree) ==
    /\ id \in DOMAIN emotion_types \/ id = Cardinality(DOMAIN emotion_types) + 1
    /\ LET cleaned == EmotionType_clean(name, degree) IN
         IF cleaned.error # ""
         THEN /\ resp' = Response("emotion_type_save", None, id, 400, cleaned.error, 0)
              /\ UNCHANGED emotion_types
         ELSE IF \E other \in DOMAIN emotion_types \ {id} : emotion_types[other].name = name
         THEN /\ resp' = Response("emotion_type_save", None, id, 500, "IntegrityError", 0)
              /\ UNCHANGED emotion_types
         ELSE /\ emotion_types' =
                    (id :> [name |-> name, degree |-> cleaned.degree]) @@ emotion_types
              /\ resp' = Response("emotion_type_save", None, id, 200, "", 0)
    /\ UNCHANGED <<clock, emotions, next_id, inflight, collaborators, outstanding, blacklisted, started>>

NextTypes ==
    \E id \in 1..MaxTypes, name \in TypeNameInputs, degree \in TypeDegreeInputs :
        EmotionType_save(id, name, degree)

SpecTypes == Init /\ [][NextTypes]_vars

\* The degree the specification gives for each name.
DegreeTable(name) ==
    CASE name = "HAPPY" -> 1
      [] name = "SAD" -> -1
      [] name = "NEUTRAL" -> 0
      [] name = "ANGRY" -> -5
      [] name = "EXCITED" -> 5
      [] name = "ANXIOUS" -> -2

\* C21: every persisted emotion type has one of the six names and the degree
\* of the fixed table for its name, whatever degree the caller set before the
\* save; a save with another name raises a validation error on 'name' and
\* persists nothing.
C21_DegreeTableFidelity ==
    /\ [](\A id \in DOMAIN emotion_types :
            /\ emotion_types[id].name \in
                   {"HAPPY", "SAD", "NEUTRAL", "ANGRY", "EXCITED", "ANXIOUS"}
            /\ emotion_types[id].degree = DegreeTable(emotion_types[id].name))
    /\ [][\A id \in 1..MaxTypes, degree \in TypeDegreeInputs :
            EmotionType_save(id, "BORED", degree) =>
                resp'.error = "name" /\ emotion_types' = emotion_types]_vars

\* C21 witness: a third emotion type was saved as ANGRY with the degree of
\* the table, which no caller can have set, and the last save, of a name
\* outside the set, failed on 'name'.
C21_Witness ==
    /\ resp.op = "emotion_type_save"
    /\ resp.error = "name"
    /\ Cardinality(DOMAIN emotion_types) = 3
    /\ \E id \in DOMAIN emotion_types :
         /\ emotion_types[id].name = "ANGRY"
         /\ emotion_types[id].degree = -5
         /\ emotion_types[id].degree \notin TypeDegreeInputs

(***************************************************************************)
(* The label of a degree sum.                                              *)
(***************************************************************************)
\* The degrees the label is checked over: -MaxDegree .. MaxDegree.
MaxDegree == 7

\* Collaborator.get_monthly_emotion_type(total_degree)['type']
get_monthly_emotion_type(total_degree) ==
    IF total_degree <= -5 THEN "ANGRY"
    ELSE IF total_degree <= -2 THEN "ANXIOUS"
    ELSE IF total_degree <= -1 THEN "SAD"
    ELSE IF total_degree = 0 THEN "NEUTRAL"
    ELSE IF total_degree > 0 /\ total_degree < 5 THEN "HAPPY"
    ELSE "EXCITED"

\* emotion_<period>_service = get_emotion_label(degree_<period>)
ServiceLabel(s, period) == get_emotion_label(ServiceDegree(s, period))

\* The six bands of the degree-to-label function, as sets of integers.
Band(label, d) ==
    CASE label = "angry" -> d <= -5
      [] label = "anxious" -> -5 < d /\ d <= -2
      [] label = "sad" -> d = -1
      [] label = "neutral" -> d = 0
      [] label = "happy" -> 0 < d /\ d < 5
      [] label = "excited" -> d >= 5

Labels == {"angry", "anxious", "sad", "neutral", "happy", "excited"}

UpperCase(label) ==
    CASE label = "angry" -> "ANGRY"
      [] label = "anxious" -> "ANXIOUS"
      [] label = "sad" -> "SAD"
      [] label = "neutral" -> "NEUTRAL"
      [] label = "happy" -> "HAPPY"
      [] label = "excited" -> "EXCITED"

\* C22: for every integer d the label of d is 'angry' for d <= -5, 'anxious'
\* for -5 < d <= -2, 'sad' for d = -1, 'neutral' for d = 0, 'happy' for
\* 0 < d < 5 and 'excited' for d >= 5; every integer is in exactly one band.
C22_DegreeToLabel ==
    /\ \A d \in -MaxDegree..MaxDegree :
          /\ Cardinality({label \in Labels : Band(label, d)}) = 1
          /\ get_emotion_label(d) \in Labels
          /\ Band(get_emotion_label(d), d)
          /\ get_monthly_emotion_type(d) = UpperCase(get_emotion_label(d))
    /\ \A s \in Services : \A period \in Periods :
          Band(ServiceLabel(s, period), ServiceDegree(s, period))

\* C22 witness: a reporting view is answered while a service has a week sum
\* of -2, labelled 'anxious', and a day sum of -1, labelled 'sad'.
C22_Witness ==
    /\ resp.op \in Overviews
    /\ resp.status = 200
    /\ \E s \in Services :
         /\ ServiceDegree(s, "week") = -2
         /\ ServiceLabel(s, "week") = "anxious"
         /\ ServiceDegree(s, "day") = -1
         /\ ServiceLabel(s, "day") = "sad"

(***************************************************************************)
(* AuthViewSet.login and AuthViewSet.logout (views.py) and the token       *)
(* refresh route (urls.py).  The refresh tokens are checked against the    *)
(* token blacklist of section 4.5 of the specification.                    *)
(***************************************************************************)
\* The accounts of the authentication specification: c1 is an employee; c2
\* is a manager or has no account.
Accounts ==
    {Staff(Member("employee", "k1", "e1", "d1", "s1", None), NoRow),
     Staff(Member("employee", "k1", "e1", "d1", "s1", None),
           Member("manager", "k1", "e1", "d1", "s2", None))}

\* The password each account was created with.
AccountPasswords == [c \in CollaboratorIds |-> IF c = "c1" THEN "p" ELSE "q"]

\* Mutant: every password is accepted.
check_password_Any(user, password) == TRUE

\* user.check_password(password)
check_password(user, password) == password = AccountPasswords[user]

\* A refresh_token string the server never signed.
Garbage == [user |-> None, serial |-> 0]

\* Mutant: the token is verified without a look at the blacklist.
RefreshToken_Unchecked(token) ==
    IF token.user = None THEN "TokenError" ELSE ""

\* RefreshToken(token): the error of the verification of the token, "" when
\* it is signed by the server and is not blacklisted.
RefreshToken(token) ==
    IF token.user = None THEN "TokenError"
    ELSE IF token \in blacklisted THEN "TokenError"
    ELSE ""

\* The token a response is about.
TokenOf(r) == [user |-> r.caller, serial |-> r.id]

EmailParts == {[email_address |-> e] : e \in CollaboratorIds \cup {""}}

PasswordParts == {[password |-> x] : x \in {"p", "q", ""}}

\* The bodies of login: each of the two fields is supplied, empty or left
\* out.
LoginBodies ==
    {e @@ x : e \in EmailParts \cup {NoFields}, x \in PasswordParts \cup {NoFields}}

\* The bodies of logout and of the token refresh: an issued token, a string
\* that is no token, or no token at all.
TokenBodies ==
    {[refresh_token |-> t] : t \in Tokens \cup {Garbage}} \cup {NoFields}

\* POST /auth/login/
login(body) ==
    /\ LET email == get(body, "email_address")
           password == get(body, "password")
       IN IF email \in {None, ""} \/ password \in {None, ""}
          THEN /\ resp' = Response("login", None, 0, 401, "Invalid credentials", 0)
               /\ UNCHANGED outstanding
          ELSE IF ~Persisted(email)
          THEN /\ resp' = Response("login", None, 0, 404, "User not found", 0)
               /\ UNCHANGED outstanding
          ELSE IF ~check_password(email, password)
          THEN /\ resp' = Response("login", None, 0, 401, "Invalid credentials", 0)
               /\ UNCHANGED outstanding
          ELSE /\ for_user(email) \in Tokens
               /\ outstanding' = outstanding \cup {for_user(email)}
               /\ resp' = Response("login", email, 0, 200, "",
                                   for_user(email).serial)
    /\ UNCHANGED <<clock, emotion_types, emotions, next_id, inflight,
                   collaborators, blacklisted, started>>

\* POST /auth/logout/: the token is verified and blacklisted; every failure
\* of the two is answered 400.
logout(body) ==
    /\ IF "refresh_token" \notin DOMAIN body
       THEN /\ resp' = Response("logout", None, 0, 400,
                                "Refresh token is required", 0)
            /\ UNCHANGED blacklisted
       ELSE LET refresh_token == body.refresh_token IN
            /\ refresh_token \in outstanding \cup {Garbage}
            /\ IF RefreshToken(refresh_token) # ""
               THEN /\ resp' = Response("logout", refresh_token.user, 0, 400,
                                        "Invalid token", refresh_token.serial)
                    /\ UNCHANGED blacklisted
               ELSE /\ blacklisted' = blacklisted \cup {refresh_token}
                    /\ resp' = Response("logout", refresh_token.user, 0, 200,
                                        "", refresh_token.serial)
    /\ UNCHANGED <<clock, emotion_types, emotions, next_id, inflight,
                   collaborators, outstanding, started>>

\* POST /api/token/refresh/: a new access token for a verified refresh
\* token.
token_refresh(body) ==
    /\ IF "refresh_token" \notin DOMAIN body
       THEN resp' = Response("token_refresh", None, 0, 400, "refresh", 0)
       ELSE LET refresh_token == body.refresh_token IN
            /\ refresh_token \in outstanding \cup {Garbage}
            /\ IF RefreshToken(refresh_token) # ""
               THEN resp' = Response("token_refresh", refresh_token.user, 0,
                                     401, "token_not_valid",
                                     refresh_token.serial)
               ELSE resp' = Response("token_refresh", refresh_token.user, 0,
                                     200, "", refresh_token.serial)
    /\ UNCHANGED <<clock, emotion_types, emotions, next_id, inflight,
                   collaborators, outstanding, blacklisted, started>>

InitAuth ==
    /\ clock = 24 * FirstDay + 8
    /\ emotion_types = InitEmotionTypes
    /\ emotions = {}
    /\ next_id = 1
    /\ resp = NoResponse
    /\ inflight = [r \in Requests |-> Idle]
    /\ collaborators \in Accounts
    /\ outstanding = {}
    /\ blacklisted = {}
    /\ started = today

NextAuth ==
    \/ \E body \in LoginBodies : login(body)
    \/ \E body \in TokenBodies : logout(body)
    \/ \E body \in TokenBodies : token_refresh(body)

SpecAuth == InitAuth /\ [][NextAuth]_vars

(***************************************************************************)
(* C23: a blacklisted refresh token stays refused.                         *)
(***************************************************************************)
\* C23: a logout that succeeds blacklists its refresh token, and a
\* blacklisted token stays blacklisted; the token refresh refuses a
\* blacklisted token and every later logout with it is answered 400
\* 'Invalid token'; a logout without a refresh_token is answered 400 and
\* blacklists nothing.
C23_BlacklistedTokenStaysRefused ==
    [][/\ blacklisted \subseteq blacklisted'
       /\ \A t \in Tokens :
            /\ (logout([refresh_token |-> t]) /\ resp'.status = 200)
                 => t \in blacklisted'
            /\ (t \in blacklisted /\ logout([refresh_token |-> t]))
                 => /\ resp'.status = 400
                    /\ resp'.error = "Invalid token"
            /\ (t \in blacklisted /\ token_refresh([refresh_token |-> t]))
                 => resp'.status = 401
       /\ logout(NoFields)
            => /\ resp'.status = 400
               /\ blacklisted' = blacklisted]_vars

\* C23 witness: a logout with a token an earlier logout blacklisted is
\* answered 400 'Invalid token'.
C23_Witness ==
    /\ resp.op = "logout"
    /\ resp.status = 400
    /\ resp.error = "Invalid token"
    /\ TokenOf(resp) \in blacklisted

(***************************************************************************)
(* C24: the answers of login.                                              *)
(***************************************************************************)
\* C24: login answers 401 'Invalid credentials' when the email address or
\* the password is missing, 404 'User not found' when no collaborator has
\* the email address, 401 'Invalid credentials' when the password is wrong,
\* and 200 with the profile and a new token pair when it is right; a token
\* is issued in the last case only.
C24_LoginAnswers ==
    [][\A body \in LoginBodies : login(body) =>
         LET email == get(body, "email_address")
             password == get(body, "password")
             missing == email \in {None, ""} \/ password \in {None, ""}
             known == ~missing /\ Persisted(email)
             right == known /\ password = AccountPasswords[email]
         IN /\ missing => /\ resp'.status = 401
                          /\ resp'.error = "Invalid credentials"
            /\ (~missing /\ ~known) => /\ resp'.status = 404
                                       /\ resp'.error = "User not found"
            /\ (known /\ ~right) => /\ resp'.status = 401
                                    /\ resp'.error = "Invalid credentials"
            /\ right => /\ resp'.status = 200
                        /\ resp'.caller = email
                        /\ TokenOf(resp') \in outstanding' \ outstanding
            /\ ~right => outstanding' = outstanding]_vars

\* C24 witness: a login with the right password is answered 200 with a
\* token of the collaborator that was not issued before.
C24_Witness ==
    /\ resp.op = "login"
    /\ resp.status = 200
    /\ TokenOf(resp) \in outstanding
    /\ TokenOf(resp).user = resp.caller
    /\ resp.id = MaxTokens

(***************************************************************************)
(* C25: register refuses a wrong placement in validate.                    *)
(***************************************************************************)
\* The placement of a body does not fit its role.
WrongPlacement(attrs) ==
    LET role == get(attrs, "role")
        has(field) == get(attrs, field) # None
    IN \/ /\ role = "pole_director"
          /\ ~has("cluster") \/ has("entity") \/ has("department")
             \/ has("service")
       \/ /\ role = "entity_director"
          /\ ~has("entity") \/ has("department") \/ has("service")
       \/ /\ role = "department_director"
          /\ ~has("department") \/ has("service")
       \/ /\ role \in {"manager", "employee"}
          /\ ~has("service")

\* The rows a step of register has written.
Written == {c \in CollaboratorIds : collaborators'[c] # collaborators[c]}

\* C25: a register request whose placement does not fit its role fails the
\* validation of the serializer, which runs before a Collaborator is
\* constructed, and no step of register writes a row with such a placement.
C25_WrongPlacementRejected ==
    /\ [](\A c \in CollaboratorIds, attrs \in RegisterBodies :
            WrongPlacement(attrs) =>
                \/ FieldError(c, attrs, FALSE) # ""
                \/ validate(attrs) \in PlacementFields \cup {"role"})
    /\ [][resp'.op = "register" =>
            \A c \in Written : ~WrongPlacement(collaborators'[c])]_vars

\* C25 witness: register has refused a pole director without a cluster
\* while the table was empty, so that no rule about the other rows applied.
C25_Witness ==
    /\ resp.op = "register"
    /\ resp.status = 400
    /\ resp.error = "cluster"
    /\ \A c \in CollaboratorIds : ~Persisted(c)

StaleDays == 3

\* The night passes while the process stays up: the next request arrives on
\* the morning after.
NextMorning ==
    /\ today < FirstDay + StaleDays
    /\ clock' = 24 * (today + 1) + 8
    /\ resp' = NoResponse
    /\ UNCHANGED <<emotion_types, emotions, next_id, inflight, collaborators,
                   outstanding, blacklisted, started>>

\* EmotionOverViewSet.emotion_overview: total_day, total_week and
\* total_month of the caller.
total_submissions(c, period) ==
    Cardinality({e \in emotions :
        /\ e.collaborator = c
        /\ \/ period = "day" /\ e.day = module_today
           \/ period = "week" /\ e.week_number = module_week_number
                               /\ e.year = module_year
           \/ period = "month" /\ e.month = module_month /\ e.year = module_year})

\* GET /emotion-overview/ by the authenticated collaborator c.
emotion_overview(c) == View("emotion_overview", c, Answer(200, ""))

NextStale ==
    \/ \E c \in CollaboratorIds, t \in DOMAIN InitEmotionTypes : SubmitEmotion(c, t)
    \/ NextMorning
    \/ \E c \in CollaboratorIds : emotion_overview(c)
    \/ \E c \in CollaboratorIds : manager_overview(c)
    \/ \E c \in CollaboratorIds : department_director_overview(c)

SpecStale == InitReport /\ [][NextStale]_vars

\* The emotions the windows of the overviews count, per period.
Counted(period) == get_emotions_for_period(CollaboratorIds, period)

\* C26: the windows of the overviews are those of the date the process
\* started on.  When the date advances, no window changes; an emotion that
\* submit accepts carries the current date, and when that date is not the
\* date of the start the emotion enters no day window: not that of
\* get_emotions_for_period, not that of a service, and the caller's
\* total_submissions of the day stays as it was.
C26_StaleWindows ==
    [][/\ clock' # clock =>
            \A period \in Periods : Counted(period)' = Counted(period)
       /\ (resp'.op = "submit" /\ resp'.status = 201) =>
            \E e \in emotions' \ emotions :
                /\ e.id = resp'.id
                /\ e.collaborator = resp'.caller
                /\ e.day = today
                /\ e.week_number = WeekNumberOf(today)
                /\ e.month = MonthOf(today)
                /\ today # started =>
                     /\ e \notin Counted("day")'
                     /\ \A sv \in Services : e \notin WindowRows(sv, "day")'
                     /\ total_submissions(e.collaborator, "day")'
                          = total_submissions(e.collaborator, "day")]_vars

\* C26 witness: the personal overview is answered on a day after the start
\* of the process, for a caller whose emotion of that day was accepted by
\* submit: the day window of the overview counts none.
C26_Witness ==
    /\ resp.op = "emotion_overview"
    /\ resp.status = 200
    /\ today > module_today
    /\ \E e \in emotions : e.collaborator = resp.caller /\ e.day = today
    /\ total_submissions(resp.caller, "day") = 0
    /\ Counted("day") = {}

(***************************************************************************)
(* C27: the general humor of the clusters and of the whole organisation in *)
(* the answer of DrhOverviewSet.drh_overview.                              *)
(***************************************************************************)
\* entities_data[...]['general_humor_<period>'] of a cluster
EntityHumors(k, period) == [e \in EntitiesOf(k) |-> EntityHumor(e, period)]

\* f'general_humor_{period}'
HumorKey(period) ==
    CASE period = "day" -> "general_humor_day"
      [] period = "week" -> "general_humor_week"
      [] period = "month" -> "general_humor_month"

\* The item drh_overview appends to clusters_data for a cluster: its name,
\* its labels and its flags (the counts are left out).  After the loop over
\* the entities an aggregate_general_humor over entities_data is defined; the
\* item takes no value from it.
drh_cluster_data(k) ==
    [cluster_name |-> k,
     emotion_today_cluster |->
         get_emotion_label(total_emotion_degree_cluster(k, "day")),
     emotion_week_cluster |->
         get_emotion_label(total_emotion_degree_cluster(k, "week")),
     emotion_month_cluster |->
         get_emotion_label(total_emotion_degree_cluster(k, "month")),
     entity_to_supervise |-> entity_to_supervise(k)]

\* The body of the answer of drh_overview: the clusters, the labels of the
\* organisation and its flags (the counts are left out).  After the loop
\* over the clusters an aggregate_general_humor over clusters_data is
\* defined; the body takes no value from it.
drh_overview_data ==
    [clusters |-> [k \in Clusters |-> drh_cluster_data(k)],
     emotion_today |-> get_emotion_label(total_emotion_degree_axian("day")),
     emotion_week |-> get_emotion_label(total_emotion_degree_axian("week")),
     emotion_month |-> get_emotion_label(total_emotion_degree_axian("month")),
     cluster_to_supervise |-> cluster_to_supervise]

\* The item or body carries the general humor of the period, and it is the
\* majority of the children's tags.
CarriesVote(data, period, humors) ==
    /\ HumorKey(period) \in DOMAIN data
    /\ data[HumorKey(period)] = aggregate_general_humor(humors)

\* C27: when drh_overview is answered, the item of every cluster carries
\* for each period the majority vote over the tags of its entities, and the
\* body carries the majority vote over the tags of the clusters.
C27_ClusterAndGlobalHumor ==
    (resp.op = "drh_overview" /\ resp.status = 200) =>
        \A period \in Periods :
            /\ \A k \in Clusters :
                 CarriesVote(drh_overview_data.clusters[k], period,
                             EntityHumors(k, period))
            /\ CarriesVote(drh_overview_data, period,
                           [k \in Clusters |->
                              drh_overview_data.clusters[k][HumorKey(period)]])

(***************************************************************************)
(* C29: the emotions of a caller.  The list and retrieve routes of         *)
(* EmotionViewSet read through get_queryset.                               *)
(***************************************************************************)
\* GET /emotions/ by the authenticated collaborator c: the rows of
\* get_queryset(c).
list(c) ==
    /\ resp' = Response("list", c, 0, 200, "", 0)
    /\ UNCHANGED <<clock, emotion_types, emotions, next_id, inflight,
                   collaborators, outstanding, blacklisted, started>>

\* GET /emotions/<id>/ by the authenticated collaborator c: the row of
\* get_queryset(c) with the id, or 404.
retrieve(c, id) ==
    /\ IF \E e \in get_queryset(c) : e.id = id
       THEN resp' = Response("retrieve", c, 0, 200, "", id)
       ELSE resp' = Response("retrieve", c, 0, 404, "Not found", id)
    /\ UNCHANGED <<clock, emotion_types, emotions, next_id, inflight,
                   collaborators, outstanding, blacklisted, started>>

NextOwn ==
    \/ \E c \in CollaboratorIds, t \in EmotionTypeInputs : SubmitEmotion(c, t)
    \/ \E c \in CollaboratorIds, t \in EmotionTypeInputs, k \in CollaboratorIds :
         DefaultCreate(c, t, k)
    \/ \E c \in CollaboratorIds, id \in 1..MaxEmotions, t \in EmotionTypeInputs,
          k \in CollaboratorIds : DefaultUpdate(c, id, t, k)
    \/ \E c \in CollaboratorIds : list(c)
    \/ \E c \in CollaboratorIds, id \in 1..MaxEmotions : retrieve(c, id)

SpecOwn == Init /\ [][NextOwn]_vars

\* The rows a step has inserted.
Inserted == {e \in emotions' : \A o \in emotions : o.id # e.id}

\* C29: a row is inserted by submit or by create only, and the collaborator
\* of the inserted row is the caller, also when the body of the create names
\* another collaborator; the rows a caller lists are rows of the caller, and
\* a retrieve answers 200 only for a row of the caller.
C29_OwnRecords ==
    /\ [][/\ Inserted # {} =>
               /\ resp'.op \in {"submit", "create"}
               /\ resp'.status = 201
               /\ \A e \in Inserted :
                    e.id = resp'.id /\ e.collaborator = resp'.caller
          /\ \A c, k \in CollaboratorIds, t \in EmotionTypeInputs :
               (k # c /\ DefaultCreate(c, t, k) /\ resp'.status = 201) =>
                   \A e \in Inserted : e.collaborator = c]_vars
    /\ [](\A c \in CollaboratorIds : \A e \in get_queryset(c) :
             e.collaborator = c)
    /\ []((resp.op = "retrieve" /\ resp.status = 200) =>
             \E e \in emotions :
                 e.id = resp.id /\ e.collaborator = resp.caller)

\* C29 witness: a caller retrieves the id of a row of another collaborator
\* and is answered 404.
C29_Witness ==
    /\ resp.op = "retrieve"
    /\ resp.status = 404
    /\ \E e \in emotions : e.id = resp.id /\ e.collaborator # resp.caller

(***************************************************************************)
(* C30: the unsubmitted counts of a service.  The tables outlive the       *)
(* server process: when it is started again, the module-level date of      *)
(* views.py is the date of the new start.                                  *)
(***************************************************************************)
\* The server process is started again: today = timezone.localdate() is
\* evaluated anew.
Restart ==
    /\ started' = today
    /\ resp' = NoResponse
    /\ UNCHANGED <<clock, emotion_types, emotions, next_id, inflight,
                   collaborators, outstanding, blacklisted>>

\* The days of a month of the calendar: May 2025 ends on day 5, June 2025
\* on day 35.
MonthDays(m) == IF m = 5 THEN -25..5 ELSE 6..35

\* week_days = [today + timedelta(days=i - today.weekday()) for i in range(5)]
week_days == {module_today + i - (module_today % 7) : i \in 0..4}

\* sum(1 for d in week_days if d.month == today.month)
week_working_days ==
    Cardinality({d \in week_days : MonthOf(d) = MonthOf(module_today)})

\* sum(1 for i in range(1, last_day + 1) if weekday(year, month, i) < 5)
month_working_days ==
    Cardinality({d \in MonthDays(module_month) : d % 7 < 5})

\* week_possible - submissions_week of a service
total_unsubmit_week(s) ==
    Cardinality(ServiceCollaborators(s)) * week_working_days * 2
        - Cardinality(get_emotions_for_period(ServiceCollaborators(s), "week"))

\* month_possible - submissions_month of a service
total_unsubmit_month(s) ==
    Cardinality(ServiceCollaborators(s)) * month_working_days * 2
        - Cardinality(get_emotions_for_period(ServiceCollaborators(s), "month"))

\* Every emotion is created by a submit, one request after the other.
NextWeek ==
    \/ \E c \in CollaboratorIds, t \in DOMAIN InitEmotionTypes : SubmitEmotion(c, t)
    \/ Midnight
    \/ Restart
    \/ \E c \in CollaboratorIds : manager_overview(c)
    \/ \E c \in CollaboratorIds : department_director_overview(c)

SpecWeek == InitReport /\ [][NextWeek]_vars

\* C30: when the overview of a department is answered, the unsubmitted
\* counts of the week and of the month of each of its services are not
\* negative.
C30_UnsubmittedNeverNegative ==
    (resp.op = "department_director_overview" /\ resp.status = 200) =>
        \A s \in ServicesOf(collaborators[resp.caller].department) :
            /\ total_unsubmit_week(s) >= 0
            /\ total_unsubmit_month(s) >= 0

====
